---- MODULE Spec2Model ----
(***************************************************************************)
(* Verification model of the shard working-store (engine/shards.rs), the   *)
(* encoder and decoder work buffers (rate/encoder_work.rs,                 *)
(* rate/decoder_work.rs) and the result types (encoder_result.rs,          *)
(* decoder_result.rs) of simd-erasure-core.                                *)
(*                                                                         *)
(* Byte slices and chunk vectors are zero-based functions, as in the       *)
(* source: a slice of length n is a function with domain 0..n-1.           *)
(***************************************************************************)
EXTENDS Integers, Sequences, FiniteSets, TLC

VARIABLES
    encoder_work,     \* EncoderWork owned by the encoder
    encoder_result,   \* TRUE while an EncoderResult borrows encoder_work
    encoder_ret,      \* value returned by the last call on the encoder
    decoder_work,     \* DecoderWork owned by the decoder
    decoder_result,   \* TRUE while a DecoderResult borrows decoder_work
    decoder_ret,      \* value returned by the last call on the decoder
    config,           \* history: <<rate, K, M, S>> both were built with
    engine,           \* the engine both were built with
    accepted,         \* history: shards the encoder accepted in its session
    supplied,         \* history: index -> shard the decoder accepted in its
                      \* session, for the originals and for the recovery shards
    sessions,         \* history: results dropped so far, per side
    recovery_iter,    \* the Recovery iterator of the EncoderResult, if any
    restored_original_iter,
                      \* the RestoredOriginal iterator of the DecoderResult,
                      \* if any
    yielded,          \* history: what next() returned, call by call, for each
                      \* of the two iterators
    validate_ret,     \* value returned by the rate's validate for config
    resets,           \* history: reset calls made on the two work buffers
    store,            \* a Shards store used on its own
    store_shard_bytes,
                      \* the shard size the store was sized for
    store_inserted,   \* history: slot -> shard inserted into the store
    store_undone,     \* history: slots whose last chunk was un-split
    view_ret          \* value returned by the last dist2_mut / dist4_mut

vars == <<encoder_work, encoder_result, encoder_ret,
          decoder_work, decoder_result, decoder_ret,
          config, engine, accepted, supplied, sessions,
          recovery_iter, restored_original_iter, yielded,
          validate_ret, resets,
          store, store_shard_bytes, store_inserted, store_undone, view_ret>>

iter_vars == <<recovery_iter, restored_original_iter, yielded>>

store_vars == <<store, store_shard_bytes, store_inserted, store_undone,
                view_ret>>

unit_vars == <<validate_ret, resets, store_vars>>

session_vars == <<encoder_work, encoder_result, encoder_ret,
                  decoder_work, decoder_result, decoder_ret,
                  config, engine, accepted, supplied, sessions, iter_vars>>

\* ----------------------------------------------------------------------
\* Bounds of the model

\* Width of usize in bits (the smallest width Rust allows).
USIZE_BITS == 16

\* Results that may be dropped on each side in one behaviour.
MaxSessions == 2

\* Number of distinct batches the caller chooses from in one session.
MaxSeeds == 1

\* Calls of next() made on an iterator after the last item.
MaxExhausted == 2

\* Shards of a store used on its own.
MaxShardCount == 2

\* Shards of a store whose view is used.
MaxViewShards == 7

\* Calls of reset made on the work buffers in one behaviour.
MaxResets == 2

\* Largest original_count and recovery_count the rates are tried with,
\* the parameter sets of the tests aside.
MaxCount == 3

\* ----------------------------------------------------------------------
\* Integers, bytes, slices

RECURSIVE Pow2(_)
Pow2(n) == IF n = 0 THEN 1 ELSE 2 * Pow2(n - 1)

USIZE_MAX == Pow2(USIZE_BITS) - 1

Min(a, b) == IF a < b THEN a ELSE b
Max(a, b) == IF a < b THEN b ELSE a

\* usize::div_ceil
DivCeil(a, b) == (a + b - 1) \div b

\* usize::next_power_of_two
RECURSIVE NextPow2From(_, _)
NextPow2From(p, n) == IF p >= n THEN p ELSE NextPow2From(2 * p, n)
NextPowerOfTwo(n) == NextPow2From(1, n)

\* slice.len()
SliceLen(s) == Cardinality(DOMAIN s)

\* &s[from..to]
SubSlice(s, from, to) == [k \in 0..(to - from - 1) |-> s[from + k]]

\* [0; 64]
ZeroChunk == [b \in 0..63 |-> 0]

\* [[u8; 64]]::as_flattened
AsFlattened(chunks) ==
    [k \in 0..(64 * SliceLen(chunks) - 1) |-> chunks[k \div 64][k % 64]]

\* ----------------------------------------------------------------------
\* Shards (engine/shards.rs)

Shards_new == [shard_count |-> 0, shard_len_64 |-> 0, data |-> <<>>]

\* Faulty variant: the chunks added are not zeroed.
Shards_resize_Dirty(self, shard_count, shard_len_64) ==
    [shard_count |-> shard_count,
     shard_len_64 |-> shard_len_64,
     data |-> [c \in 0..(shard_count * shard_len_64 - 1) |->
                  IF c \in DOMAIN self.data THEN self.data[c]
                  ELSE [b \in 0..63 |-> 255]]]

Shards_resize(self, shard_count, shard_len_64) ==
    [shard_count |-> shard_count,
     shard_len_64 |-> shard_len_64,
     data |-> [c \in 0..(shard_count * shard_len_64 - 1) |->
                  IF c \in DOMAIN self.data THEN self.data[c] ELSE ZeroChunk]]

\* Index<usize> for Shards: the slice bounds are checked, a miss panics.
Shards_index_panics(self, index) ==
    (index + 1) * self.shard_len_64 > SliceLen(self.data)

Shards_index(self, index) ==
    SubSlice(self.data, index * self.shard_len_64,
             (index + 1) * self.shard_len_64)

Shards_insert_panics(self, index, shard) ==
    LET whole_chunk_count == SliceLen(shard) \div 64
        tail_len == SliceLen(shard) % 64
    IN  \/ Shards_index_panics(self, index)
        \/ whole_chunk_count > self.shard_len_64
        \/ tail_len > 0 /\ whole_chunk_count >= self.shard_len_64

\* Faulty variant: the tail is copied in one piece, the high half right
\* after the low half.
Shards_insert_Contiguous(self, index, shard) ==
    LET whole_chunk_count == SliceLen(shard) \div 64
        tail_len == SliceLen(shard) % 64
        first == index * self.shard_len_64
    IN  [self EXCEPT !.data =
            [c \in DOMAIN self.data |->
                IF c >= first /\ c < first + whole_chunk_count
                THEN [b \in 0..63 |-> shard[64 * (c - first) + b]]
                ELSE IF tail_len > 0 /\ c = first + whole_chunk_count
                THEN [b \in 0..63 |->
                        IF b < tail_len
                        THEN shard[64 * whole_chunk_count + b]
                        ELSE self.data[c][b]]
                ELSE self.data[c]]]

\* Faulty variant: the rest of the last chunk is zeroed.
Shards_insert_Zeroed(self, index, shard) ==
    LET whole_chunk_count == SliceLen(shard) \div 64
        tail_len == SliceLen(shard) % 64
        src_lo_len == tail_len \div 2
        src_hi_len == tail_len - tail_len \div 2
        first == index * self.shard_len_64
    IN  [self EXCEPT !.data =
            [c \in DOMAIN self.data |->
                IF c >= first /\ c < first + whole_chunk_count
                THEN [b \in 0..63 |-> shard[64 * (c - first) + b]]
                ELSE IF tail_len > 0 /\ c = first + whole_chunk_count
                THEN [b \in 0..63 |->
                        IF b < src_lo_len
                        THEN shard[64 * whole_chunk_count + b]
                        ELSE IF b >= 32 /\ b < 32 + src_hi_len
                        THEN shard[64 * whole_chunk_count + src_lo_len + (b - 32)]
                        ELSE 0]
                ELSE self.data[c]]]

Shards_insert(self, index, shard) ==
    LET whole_chunk_count == SliceLen(shard) \div 64
        tail_len == SliceLen(shard) % 64
        src_lo_len == tail_len \div 2
        src_hi_len == tail_len - tail_len \div 2
        first == index * self.shard_len_64
    IN  [self EXCEPT !.data =
            [c \in DOMAIN self.data |->
                IF c >= first /\ c < first + whole_chunk_count
                THEN [b \in 0..63 |-> shard[64 * (c - first) + b]]
                ELSE IF tail_len > 0 /\ c = first + whole_chunk_count
                THEN [b \in 0..63 |->
                        IF b < src_lo_len
                        THEN shard[64 * whole_chunk_count + b]
                        ELSE IF b >= 32 /\ b < 32 + src_hi_len
                        THEN shard[64 * whole_chunk_count + src_lo_len + (b - 32)]
                        ELSE self.data[c][b]]
                ELSE self.data[c]]]

\* Faulty variant: the first chunk of the shard is un-split, not the last.
Shards_undo_last_chunk_encoding_First(self, shard_bytes, from, to) ==
    LET tail_len == shard_bytes % 64
    IN  IF tail_len = 0 THEN self
        ELSE [self EXCEPT !.data =
                [c \in DOMAIN self.data |->
                    IF /\ c % self.shard_len_64 = 0
                       /\ c \div self.shard_len_64 >= from
                       /\ c \div self.shard_len_64 < to
                    THEN [b \in 0..63 |->
                            IF b >= tail_len \div 2 /\ b < tail_len
                            THEN self.data[c][32 + (b - tail_len \div 2)]
                            ELSE self.data[c][b]]
                    ELSE self.data[c]]]

\* Faulty variant: the high half is taken from offset 31 instead of 32.
Shards_undo_last_chunk_encoding_Off(self, shard_bytes, from, to) ==
    LET whole_chunk_count == shard_bytes \div 64
        tail_len == shard_bytes % 64
    IN  IF tail_len = 0 THEN self
        ELSE [self EXCEPT !.data =
                [c \in DOMAIN self.data |->
                    IF /\ c % self.shard_len_64 = whole_chunk_count
                       /\ c \div self.shard_len_64 >= from
                       /\ c \div self.shard_len_64 < to
                    THEN [b \in 0..63 |->
                            IF b >= tail_len \div 2 /\ b < tail_len
                            THEN self.data[c][31 + (b - tail_len \div 2)]
                            ELSE self.data[c][b]]
                    ELSE self.data[c]]]

Shards_undo_last_chunk_encoding(self, shard_bytes, from, to) ==
    LET whole_chunk_count == shard_bytes \div 64
        tail_len == shard_bytes % 64
    IN  IF tail_len = 0 THEN self
        ELSE [self EXCEPT !.data =
                [c \in DOMAIN self.data |->
                    IF /\ c % self.shard_len_64 = whole_chunk_count
                       /\ c \div self.shard_len_64 >= from
                       /\ c \div self.shard_len_64 < to
                    THEN [b \in 0..63 |->
                            IF b >= tail_len \div 2 /\ b < tail_len
                            THEN self.data[c][32 + (b - tail_len \div 2)]
                            ELSE self.data[c][b]]
                    ELSE self.data[c]]]

\* ----------------------------------------------------------------------
\* EncoderWork (rate/encoder_work.rs)

Ok == [tag |-> "Ok"]
Panic == [tag |-> "Panic"]
NoCall == [tag |-> "NoCall"]

EncoderWork_new ==
    [original_count |-> 0, recovery_count |-> 0, shard_bytes |-> 0,
     original_received_count |-> 0, shards |-> Shards_new]

\* Faulty variant: the slots are filled from the last one down.
EncoderWork_add_original_shard_Reverse(self, original_shard) ==
    LET slot == self.original_count - 1 - self.original_received_count
    IN  IF self.original_received_count = self.original_count
        THEN [work |-> self,
              ret |-> [tag |-> "TooManyOriginalShards",
                       original_count |-> self.original_count]]
        ELSE IF SliceLen(original_shard) # self.shard_bytes
        THEN [work |-> self,
              ret |-> [tag |-> "DifferentShardSize",
                       shard_bytes |-> self.shard_bytes,
                       got |-> SliceLen(original_shard)]]
        ELSE IF Shards_insert_panics(self.shards, slot, original_shard)
        THEN [work |-> self, ret |-> Panic]
        ELSE [work |-> [self EXCEPT
                          !.shards = Shards_insert(self.shards, slot, original_shard),
                          !.original_received_count =
                              self.original_received_count + 1],
              ret |-> Ok]

\* Faulty variant: the count is compared with > instead of =.
EncoderWork_add_original_shard_Off(self, original_shard) ==
    IF self.original_received_count > self.original_count
    THEN [work |-> self,
          ret |-> [tag |-> "TooManyOriginalShards",
                   original_count |-> self.original_count]]
    ELSE IF SliceLen(original_shard) # self.shard_bytes
    THEN [work |-> self,
          ret |-> [tag |-> "DifferentShardSize",
                   shard_bytes |-> self.shard_bytes,
                   got |-> SliceLen(original_shard)]]
    ELSE IF Shards_insert_panics(self.shards, self.original_received_count,
                                 original_shard)
    THEN [work |-> self, ret |-> Panic]
    ELSE [work |-> [self EXCEPT
                      !.shards = Shards_insert(self.shards,
                                     self.original_received_count, original_shard),
                      !.original_received_count = self.original_received_count + 1],
          ret |-> Ok]

\* Returns the work after the call and the value the call returns.
\* Faulty variant: the originals are inserted after the slots of the
\* recovery shards, rounded up to a power of two.
EncoderWork_add_original_shard_Based(self, original_shard) ==
    IF self.original_received_count = self.original_count
    THEN [work |-> self,
          ret |-> [tag |-> "TooManyOriginalShards",
                   original_count |-> self.original_count]]
    ELSE IF SliceLen(original_shard) # self.shard_bytes
    THEN [work |-> self,
          ret |-> [tag |-> "DifferentShardSize",
                   shard_bytes |-> self.shard_bytes,
                   got |-> SliceLen(original_shard)]]
    ELSE IF Shards_insert_panics(self.shards, NextPowerOfTwo(self.recovery_count)
                                     + self.original_received_count,
                                 original_shard)
    THEN [work |-> self, ret |-> Panic]
    ELSE [work |-> [self EXCEPT
                      !.shards = Shards_insert(self.shards,
                                     NextPowerOfTwo(self.recovery_count)
                                         + self.original_received_count,
                                     original_shard),
                      !.original_received_count = self.original_received_count + 1],
          ret |-> Ok]

EncoderWork_add_original_shard(self, original_shard) ==
    IF self.original_received_count = self.original_count
    THEN [work |-> self,
          ret |-> [tag |-> "TooManyOriginalShards",
                   original_count |-> self.original_count]]
    ELSE IF SliceLen(original_shard) # self.shard_bytes
    THEN [work |-> self,
          ret |-> [tag |-> "DifferentShardSize",
                   shard_bytes |-> self.shard_bytes,
                   got |-> SliceLen(original_shard)]]
    ELSE IF Shards_insert_panics(self.shards, self.original_received_count,
                                 original_shard)
    THEN [work |-> self, ret |-> Panic]
    ELSE [work |-> [self EXCEPT
                      !.shards = Shards_insert(self.shards,
                                     self.original_received_count, original_shard),
                      !.original_received_count = self.original_received_count + 1],
          ret |-> Ok]

\* Faulty variant: one original fewer is enough.
EncoderWork_encode_begin_Off(self) ==
    IF self.original_received_count + 1 >= self.original_count
    THEN Ok
    ELSE [tag |-> "TooFewOriginalShards",
          original_count |-> self.original_count,
          original_received_count |-> self.original_received_count]

\* The Ok value stands for the (ShardsRefMut, original_count, recovery_count)
\* triple, which borrows self.shards.
EncoderWork_encode_begin(self) ==
    IF self.original_received_count = self.original_count
    THEN Ok
    ELSE [tag |-> "TooFewOriginalShards",
          original_count |-> self.original_count,
          original_received_count |-> self.original_received_count]

None == [tag |-> "None"]
Some(v) == [tag |-> "Some", value |-> v]

\* ----------------------------------------------------------------------
\* ShardsRefMut (engine/shards.rs)

\* A mutable slice of the chunks a view borrows: the chunks from `from`
\* (included) to `to` (excluded) of the data of the view.
ChunkSlice(from, to) == [from |-> from, to |-> to]

ChunkSlice_len(s) == s.to - s.from

\* &mut s[n..] and &mut s[..n], for n <= s.len()
ChunkSlice_from(s, n) == ChunkSlice(s.from + n, s.to)
ChunkSlice_to(s, n) == ChunkSlice(s.from, s.from + n)

\* ShardsRefMut::new
ShardsRefMut_new(shard_count, shard_len_64, data) ==
    [shard_count |-> shard_count,
     shard_len_64 |-> shard_len_64,
     data |-> ChunkSlice_to(data, shard_count * shard_len_64)]

\* Shards::as_ref_mut
Shards_as_ref_mut(self) ==
    ShardsRefMut_new(self.shard_count, self.shard_len_64,
                     ChunkSlice(0, SliceLen(self.data)))

ShardsRefMut_dist2_mut(self, pos, dist) ==
    LET p == pos * self.shard_len_64
        d == dist * self.shard_len_64
    IN  IF p > ChunkSlice_len(self.data) THEN Panic
        ELSE IF d > ChunkSlice_len(ChunkSlice_from(self.data, p)) THEN Panic
        ELSE LET rest == ChunkSlice_from(self.data, p)
                 a == ChunkSlice_to(rest, d)
                 b == ChunkSlice_from(rest, d)
             IN  IF \/ self.shard_len_64 > ChunkSlice_len(a)
                    \/ self.shard_len_64 > ChunkSlice_len(b)
                 THEN Panic
                 ELSE Some(<<ChunkSlice_to(a, self.shard_len_64),
                             ChunkSlice_to(b, self.shard_len_64)>>)

\* Faulty variant: both halves are split at dist, and so is the data.
ShardsRefMut_dist4_mut_Half(self, pos, dist) ==
    LET p == pos * self.shard_len_64
        d == dist * self.shard_len_64
    IN  IF p > ChunkSlice_len(self.data) THEN Panic
        ELSE IF d > ChunkSlice_len(ChunkSlice_from(self.data, p))
        THEN Panic
        ELSE LET rest == ChunkSlice_from(self.data, p)
                 ab == ChunkSlice_to(rest, d)
                 cd == ChunkSlice_from(rest, d)
             IN  IF d > ChunkSlice_len(ab) \/ d > ChunkSlice_len(cd)
                 THEN Panic
                 ELSE LET a == ChunkSlice_to(ab, d)
                          b == ChunkSlice_from(ab, d)
                          c == ChunkSlice_to(cd, d)
                          dd == ChunkSlice_from(cd, d)
                      IN  IF \E s \in {a, b, c, dd} :
                                 self.shard_len_64 > ChunkSlice_len(s)
                          THEN Panic
                          ELSE Some(<<ChunkSlice_to(a, self.shard_len_64),
                                      ChunkSlice_to(b, self.shard_len_64),
                                      ChunkSlice_to(c, self.shard_len_64),
                                      ChunkSlice_to(dd, self.shard_len_64)>>)

ShardsRefMut_dist4_mut(self, pos, dist) ==
    LET p == pos * self.shard_len_64
        d == dist * self.shard_len_64
    IN  IF p > ChunkSlice_len(self.data) THEN Panic
        ELSE IF d * 2 > ChunkSlice_len(ChunkSlice_from(self.data, p))
        THEN Panic
        ELSE LET rest == ChunkSlice_from(self.data, p)
                 ab == ChunkSlice_to(rest, d * 2)
                 cd == ChunkSlice_from(rest, d * 2)
             IN  IF d > ChunkSlice_len(ab) \/ d > ChunkSlice_len(cd)
                 THEN Panic
                 ELSE LET a == ChunkSlice_to(ab, d)
                          b == ChunkSlice_from(ab, d)
                          c == ChunkSlice_to(cd, d)
                          dd == ChunkSlice_from(cd, d)
                      IN  IF \E s \in {a, b, c, dd} :
                                 self.shard_len_64 > ChunkSlice_len(s)
                          THEN Panic
                          ELSE Some(<<ChunkSlice_to(a, self.shard_len_64),
                                      ChunkSlice_to(b, self.shard_len_64),
                                      ChunkSlice_to(c, self.shard_len_64),
                                      ChunkSlice_to(dd, self.shard_len_64)>>)

\* Faulty variant: the ranges come back in address order whatever the order
\* of the arguments.
ShardsRefMut_flat2_mut_Sorted(self, x, y, count) ==
    LET xc == x * self.shard_len_64
        yc == y * self.shard_len_64
        n == count * self.shard_len_64
        lo == Min(xc, yc)
        hi == Max(xc, yc)
    IN  IF hi > ChunkSlice_len(self.data) THEN Panic
        ELSE LET head == ChunkSlice_to(self.data, hi)
                 tail == ChunkSlice_from(self.data, hi)
             IN  IF lo + n > ChunkSlice_len(head) \/ n > ChunkSlice_len(tail)
                 THEN Panic
                 ELSE Some(<<ChunkSlice_to(ChunkSlice_from(head, lo), n),
                             ChunkSlice_to(tail, n)>>)

\* flat2_mut: the chunks of the shards x .. x + count and of the shards
\* y .. y + count, borrowed from the two sides of one split of the data at
\* the higher of the two starts.
ShardsRefMut_flat2_mut(self, x, y, count) ==
    LET xc == x * self.shard_len_64
        yc == y * self.shard_len_64
        n == count * self.shard_len_64
    IN  IF xc < yc
        THEN IF yc > ChunkSlice_len(self.data) THEN Panic
             ELSE LET head == ChunkSlice_to(self.data, yc)
                      tail == ChunkSlice_from(self.data, yc)
                  IN  IF xc + n > ChunkSlice_len(head)
                         \/ n > ChunkSlice_len(tail)
                      THEN Panic
                      ELSE Some(<<ChunkSlice_to(ChunkSlice_from(head, xc), n),
                                  ChunkSlice_to(tail, n)>>)
        ELSE IF xc > ChunkSlice_len(self.data) THEN Panic
             ELSE LET head == ChunkSlice_to(self.data, xc)
                      tail == ChunkSlice_from(self.data, xc)
                  IN  IF n > ChunkSlice_len(tail)
                         \/ yc + n > ChunkSlice_len(head)
                      THEN Panic
                      ELSE Some(<<ChunkSlice_to(tail, n),
                                  ChunkSlice_to(ChunkSlice_from(head, yc), n)>>)

EncoderWork_recovery(self, index) ==
    IF index < self.recovery_count
    THEN Some(SubSlice(AsFlattened(Shards_index(self.shards, index)),
                       0, self.shard_bytes))
    ELSE None

\* Faulty variant: the number of originals received is kept.
EncoderWork_reset_Counted(self, original_count, recovery_count, shard_bytes, work_count) ==
    [original_count |-> original_count,
     recovery_count |-> recovery_count,
     shard_bytes |-> shard_bytes,
     original_received_count |-> self.original_received_count,
     shards |-> Shards_resize(self.shards, work_count, DivCeil(shard_bytes, 64))]

EncoderWork_reset(self, original_count, recovery_count, shard_bytes, work_count) ==
    [original_count |-> original_count,
     recovery_count |-> recovery_count,
     shard_bytes |-> shard_bytes,
     original_received_count |-> 0,
     shards |-> Shards_resize(self.shards, work_count, DivCeil(shard_bytes, 64))]

EncoderWork_reset_received(self) ==
    [self EXCEPT !.original_received_count = 0]

EncoderWork_undo_last_chunk_encoding(self) ==
    [self EXCEPT !.shards =
        Shards_undo_last_chunk_encoding(self.shards, self.shard_bytes,
                                        0, self.recovery_count)]

EncoderWork_recovery_count(self) == self.recovery_count

\* ----------------------------------------------------------------------
\* FixedBitSet, as DecoderWork uses it

FixedBitSet_new == <<>>

\* Index<usize>: a bit past the end reads as false.
FixedBitSet_index(bits, bit) == bit \in DOMAIN bits /\ bits[bit]

\* set(bit, true): panics when bit >= len.
FixedBitSet_set_panics(bits, bit) == bit \notin DOMAIN bits

\* Faulty variant: the bit is not set.
FixedBitSet_set_Off(bits, bit) == bits

FixedBitSet_set(bits, bit) == [bits EXCEPT ![bit] = TRUE]

\* Faulty variant: the bits are kept.
FixedBitSet_clear_Off(bits) == bits

FixedBitSet_clear(bits) == [p \in DOMAIN bits |-> FALSE]

FixedBitSet_grow(bits, len) ==
    [p \in 0..(Max(len, SliceLen(bits)) - 1) |->
        IF p \in DOMAIN bits THEN bits[p] ELSE FALSE]

\* ----------------------------------------------------------------------
\* DecoderWork (rate/decoder_work.rs)

DecoderWork_new ==
    [original_count |-> 0, recovery_count |-> 0, shard_bytes |-> 0,
     original_base_pos |-> 0, recovery_base_pos |-> 0,
     original_received_count |-> 0, recovery_received_count |-> 0,
     received |-> FixedBitSet_new, shards |-> Shards_new]

\* Faulty variant: the shard is written to the slot of its arrival order, as
\* in the encoder.
DecoderWork_add_original_shard_Arrival(self, index, original_shard, overflow_checks) ==
    LET pos == (self.original_base_pos + index) % (USIZE_MAX + 1)
        slot == self.original_base_pos + self.original_received_count
    IN  IF overflow_checks /\ self.original_base_pos + index > USIZE_MAX
        THEN [work |-> self, ret |-> Panic]
        ELSE IF index >= self.original_count
        THEN [work |-> self,
              ret |-> [tag |-> "InvalidOriginalShardIndex",
                       original_count |-> self.original_count,
                       index |-> index]]
        ELSE IF FixedBitSet_index(self.received, pos)
        THEN [work |-> self,
              ret |-> [tag |-> "DuplicateOriginalShardIndex", index |-> index]]
        ELSE IF SliceLen(original_shard) # self.shard_bytes
        THEN [work |-> self,
              ret |-> [tag |-> "DifferentShardSize",
                       shard_bytes |-> self.shard_bytes,
                       got |-> SliceLen(original_shard)]]
        ELSE IF \/ Shards_insert_panics(self.shards, slot, original_shard)
                \/ FixedBitSet_set_panics(self.received, pos)
        THEN [work |-> self, ret |-> Panic]
        ELSE [work |-> [self EXCEPT
                          !.shards = Shards_insert(self.shards, slot, original_shard),
                          !.original_received_count =
                              self.original_received_count + 1,
                          !.received = FixedBitSet_set(self.received, pos)],
              ret |-> Ok]

\* Faulty variant: a shard of a wrong size is counted before it is refused.
DecoderWork_add_original_shard_Counted(self, index, original_shard, overflow_checks) ==
    LET pos == (self.original_base_pos + index) % (USIZE_MAX + 1)
    IN  IF overflow_checks /\ self.original_base_pos + index > USIZE_MAX
        THEN [work |-> self, ret |-> Panic]
        ELSE IF index >= self.original_count
        THEN [work |-> self,
              ret |-> [tag |-> "InvalidOriginalShardIndex",
                       original_count |-> self.original_count,
                       index |-> index]]
        ELSE IF FixedBitSet_index(self.received, pos)
        THEN [work |-> self,
              ret |-> [tag |-> "DuplicateOriginalShardIndex", index |-> index]]
        ELSE IF SliceLen(original_shard) # self.shard_bytes
        THEN [work |-> [self EXCEPT !.original_received_count =
                                        self.original_received_count + 1],
              ret |-> [tag |-> "DifferentShardSize",
                       shard_bytes |-> self.shard_bytes,
                       got |-> SliceLen(original_shard)]]
        ELSE IF \/ Shards_insert_panics(self.shards, pos, original_shard)
                \/ FixedBitSet_set_panics(self.received, pos)
        THEN [work |-> self, ret |-> Panic]
        ELSE [work |-> [self EXCEPT
                          !.shards = Shards_insert(self.shards, pos, original_shard),
                          !.original_received_count =
                              self.original_received_count + 1,
                          !.received = FixedBitSet_set(self.received, pos)],
              ret |-> Ok]

\* overflow_checks: whether the build panics on usize overflow (debug
\* profile) or wraps (release profile).
\* Faulty variant: the shard is inserted into slot index, without the base
\* position of the originals.
DecoderWork_add_original_shard_Index(self, index, original_shard, overflow_checks) ==
    LET pos == (self.original_base_pos + index) % (USIZE_MAX + 1)
    IN  IF overflow_checks /\ self.original_base_pos + index > USIZE_MAX
        THEN [work |-> self, ret |-> Panic]
        ELSE IF index >= self.original_count
        THEN [work |-> self,
              ret |-> [tag |-> "InvalidOriginalShardIndex",
                       original_count |-> self.original_count,
                       index |-> index]]
        ELSE IF FixedBitSet_index(self.received, pos)
        THEN [work |-> self,
              ret |-> [tag |-> "DuplicateOriginalShardIndex", index |-> index]]
        ELSE IF SliceLen(original_shard) # self.shard_bytes
        THEN [work |-> self,
              ret |-> [tag |-> "DifferentShardSize",
                       shard_bytes |-> self.shard_bytes,
                       got |-> SliceLen(original_shard)]]
        ELSE IF \/ Shards_insert_panics(self.shards, pos, original_shard)
                \/ FixedBitSet_set_panics(self.received, pos)
        THEN [work |-> self, ret |-> Panic]
        ELSE [work |-> [self EXCEPT
                          !.shards = Shards_insert(self.shards, index, original_shard),
                          !.original_received_count =
                              self.original_received_count + 1,
                          !.received = FixedBitSet_set(self.received, pos)],
              ret |-> Ok]

DecoderWork_add_original_shard(self, index, original_shard, overflow_checks) ==
    LET pos == (self.original_base_pos + index) % (USIZE_MAX + 1)
    IN  IF overflow_checks /\ self.original_base_pos + index > USIZE_MAX
        THEN [work |-> self, ret |-> Panic]
        ELSE IF index >= self.original_count
        THEN [work |-> self,
              ret |-> [tag |-> "InvalidOriginalShardIndex",
                       original_count |-> self.original_count,
                       index |-> index]]
        ELSE IF FixedBitSet_index(self.received, pos)
        THEN [work |-> self,
              ret |-> [tag |-> "DuplicateOriginalShardIndex", index |-> index]]
        ELSE IF SliceLen(original_shard) # self.shard_bytes
        THEN [work |-> self,
              ret |-> [tag |-> "DifferentShardSize",
                       shard_bytes |-> self.shard_bytes,
                       got |-> SliceLen(original_shard)]]
        ELSE IF \/ Shards_insert_panics(self.shards, pos, original_shard)
                \/ FixedBitSet_set_panics(self.received, pos)
        THEN [work |-> self, ret |-> Panic]
        ELSE [work |-> [self EXCEPT
                          !.shards = Shards_insert(self.shards, pos, original_shard),
                          !.original_received_count =
                              self.original_received_count + 1,
                          !.received = FixedBitSet_set(self.received, pos)],
              ret |-> Ok]

\* Faulty variant: a decoder that has received original_count shards refuses
\* every further recovery shard.
DecoderWork_add_recovery_shard_Ready(self, index, recovery_shard, overflow_checks) ==
    LET pos == (self.recovery_base_pos + index) % (USIZE_MAX + 1)
    IN  IF overflow_checks /\ self.recovery_base_pos + index > USIZE_MAX
        THEN [work |-> self, ret |-> Panic]
        ELSE IF self.original_received_count + self.recovery_received_count
                    >= self.original_count
        THEN [work |-> self,
              ret |-> [tag |-> "TooManyOriginalShards",
                       original_count |-> self.original_count]]
        ELSE IF index >= self.recovery_count
        THEN [work |-> self,
              ret |-> [tag |-> "InvalidRecoveryShardIndex",
                       recovery_count |-> self.recovery_count,
                       index |-> index]]
        ELSE IF FixedBitSet_index(self.received, pos)
        THEN [work |-> self,
              ret |-> [tag |-> "DuplicateRecoveryShardIndex", index |-> index]]
        ELSE IF SliceLen(recovery_shard) # self.shard_bytes
        THEN [work |-> self,
              ret |-> [tag |-> "DifferentShardSize",
                       shard_bytes |-> self.shard_bytes,
                       got |-> SliceLen(recovery_shard)]]
        ELSE IF \/ Shards_insert_panics(self.shards, pos, recovery_shard)
                \/ FixedBitSet_set_panics(self.received, pos)
        THEN [work |-> self, ret |-> Panic]
        ELSE [work |-> [self EXCEPT
                          !.shards = Shards_insert(self.shards, pos, recovery_shard),
                          !.recovery_received_count =
                              self.recovery_received_count + 1,
                          !.received = FixedBitSet_set(self.received, pos)],
              ret |-> Ok]

\* Faulty variant: only a shorter shard is rejected for its size.
DecoderWork_add_recovery_shard_Off(self, index, recovery_shard, overflow_checks) ==
    LET pos == (self.recovery_base_pos + index) % (USIZE_MAX + 1)
    IN  IF overflow_checks /\ self.recovery_base_pos + index > USIZE_MAX
        THEN [work |-> self, ret |-> Panic]
        ELSE IF index >= self.recovery_count
        THEN [work |-> self,
              ret |-> [tag |-> "InvalidRecoveryShardIndex",
                       recovery_count |-> self.recovery_count,
                       index |-> index]]
        ELSE IF FixedBitSet_index(self.received, pos)
        THEN [work |-> self,
              ret |-> [tag |-> "DuplicateRecoveryShardIndex", index |-> index]]
        ELSE IF SliceLen(recovery_shard) < self.shard_bytes
        THEN [work |-> self,
              ret |-> [tag |-> "DifferentShardSize",
                       shard_bytes |-> self.shard_bytes,
                       got |-> SliceLen(recovery_shard)]]
        ELSE IF \/ Shards_insert_panics(self.shards, pos, recovery_shard)
                \/ FixedBitSet_set_panics(self.received, pos)
        THEN [work |-> self, ret |-> Panic]
        ELSE [work |-> [self EXCEPT
                          !.shards = Shards_insert(self.shards, pos, recovery_shard),
                          !.recovery_received_count =
                              self.recovery_received_count + 1,
                          !.received = FixedBitSet_set(self.received, pos)],
              ret |-> Ok]

\* Faulty variant: the shard is counted with the original shards.
DecoderWork_add_recovery_shard_AsOriginal(self, index, recovery_shard, overflow_checks) ==
    LET pos == (self.recovery_base_pos + index) % (USIZE_MAX + 1)
    IN  IF overflow_checks /\ self.recovery_base_pos + index > USIZE_MAX
        THEN [work |-> self, ret |-> Panic]
        ELSE IF index >= self.recovery_count
        THEN [work |-> self,
              ret |-> [tag |-> "InvalidRecoveryShardIndex",
                       recovery_count |-> self.recovery_count,
                       index |-> index]]
        ELSE IF FixedBitSet_index(self.received, pos)
        THEN [work |-> self,
              ret |-> [tag |-> "DuplicateRecoveryShardIndex", index |-> index]]
        ELSE IF SliceLen(recovery_shard) # self.shard_bytes
        THEN [work |-> self,
              ret |-> [tag |-> "DifferentShardSize",
                       shard_bytes |-> self.shard_bytes,
                       got |-> SliceLen(recovery_shard)]]
        ELSE IF \/ Shards_insert_panics(self.shards, pos, recovery_shard)
                \/ FixedBitSet_set_panics(self.received, pos)
        THEN [work |-> self, ret |-> Panic]
        ELSE [work |-> [self EXCEPT
                          !.shards = Shards_insert(self.shards, pos, recovery_shard),
                          !.original_received_count =
                              self.original_received_count + 1,
                          !.received = FixedBitSet_set(self.received, pos)],
              ret |-> Ok]

DecoderWork_add_recovery_shard(self, index, recovery_shard, overflow_checks) ==
    LET pos == (self.recovery_base_pos + index) % (USIZE_MAX + 1)
    IN  IF overflow_checks /\ self.recovery_base_pos + index > USIZE_MAX
        THEN [work |-> self, ret |-> Panic]
        ELSE IF index >= self.recovery_count
        THEN [work |-> self,
              ret |-> [tag |-> "InvalidRecoveryShardIndex",
                       recovery_count |-> self.recovery_count,
                       index |-> index]]
        ELSE IF FixedBitSet_index(self.received, pos)
        THEN [work |-> self,
              ret |-> [tag |-> "DuplicateRecoveryShardIndex", index |-> index]]
        ELSE IF SliceLen(recovery_shard) # self.shard_bytes
        THEN [work |-> self,
              ret |-> [tag |-> "DifferentShardSize",
                       shard_bytes |-> self.shard_bytes,
                       got |-> SliceLen(recovery_shard)]]
        ELSE IF \/ Shards_insert_panics(self.shards, pos, recovery_shard)
                \/ FixedBitSet_set_panics(self.received, pos)
        THEN [work |-> self, ret |-> Panic]
        ELSE [work |-> [self EXCEPT
                          !.shards = Shards_insert(self.shards, pos, recovery_shard),
                          !.recovery_received_count =
                              self.recovery_received_count + 1,
                          !.received = FixedBitSet_set(self.received, pos)],
              ret |-> Ok]

\* Faulty variant: recovery shards do not count.
DecoderWork_decode_begin_OriginalsOnly(self) ==
    IF self.original_received_count < self.original_count
    THEN [tag |-> "NotEnoughShards",
          original_count |-> self.original_count,
          original_received_count |-> self.original_received_count,
          recovery_received_count |-> self.recovery_received_count]
    ELSE [tag |-> "Ok", work |-> FALSE]

\* Faulty variant: K shards are not enough.
DecoderWork_decode_begin_Off(self) ==
    IF self.original_received_count + self.recovery_received_count
           <= self.original_count
    THEN [tag |-> "NotEnoughShards",
          original_count |-> self.original_count,
          original_received_count |-> self.original_received_count,
          recovery_received_count |-> self.recovery_received_count]
    ELSE IF self.original_received_count = self.original_count
    THEN [tag |-> "Ok", work |-> FALSE]
    ELSE [tag |-> "Ok", work |-> TRUE]

\* Ok(None) is [tag |-> "Ok", work |-> FALSE]; Ok(Some(..)), which borrows
\* the store and the bitmap for the rate layer, is [tag |-> "Ok", work |-> TRUE].
DecoderWork_decode_begin(self) ==
    IF self.original_received_count + self.recovery_received_count
           < self.original_count
    THEN [tag |-> "NotEnoughShards",
          original_count |-> self.original_count,
          original_received_count |-> self.original_received_count,
          recovery_received_count |-> self.recovery_received_count]
    ELSE IF self.original_received_count = self.original_count
    THEN [tag |-> "Ok", work |-> FALSE]
    ELSE [tag |-> "Ok", work |-> TRUE]

DecoderWork_original_count(self) == self.original_count

\* Faulty variant: the bitmap is made anew, of the length the session needs.
DecoderWork_reset_Exact(self, original_count, recovery_count, shard_bytes, original_base_pos, recovery_base_pos, work_count) ==
    LET max_received_pos == Max(original_base_pos + original_count,
                                recovery_base_pos + recovery_count)
        cleared == FixedBitSet_clear(self.received)
    IN  [original_count |-> original_count,
         recovery_count |-> recovery_count,
         shard_bytes |-> shard_bytes,
         original_base_pos |-> original_base_pos,
         recovery_base_pos |-> recovery_base_pos,
         original_received_count |-> 0,
         recovery_received_count |-> 0,
         received |-> [p \in 0..(max_received_pos - 1) |-> FALSE],
         shards |-> Shards_resize(self.shards, work_count,
                                  DivCeil(shard_bytes, 64))]

DecoderWork_reset(self, original_count, recovery_count, shard_bytes, original_base_pos, recovery_base_pos, work_count) ==
    LET max_received_pos == Max(original_base_pos + original_count,
                                recovery_base_pos + recovery_count)
        cleared == FixedBitSet_clear(self.received)
    IN  [original_count |-> original_count,
         recovery_count |-> recovery_count,
         shard_bytes |-> shard_bytes,
         original_base_pos |-> original_base_pos,
         recovery_base_pos |-> recovery_base_pos,
         original_received_count |-> 0,
         recovery_received_count |-> 0,
         received |-> IF SliceLen(cleared) < max_received_pos
                      THEN FixedBitSet_grow(cleared, max_received_pos)
                      ELSE cleared,
         shards |-> Shards_resize(self.shards, work_count,
                                  DivCeil(shard_bytes, 64))]

\* Faulty variant: recovery_received_count is kept.
DecoderWork_reset_received_Off(self) ==
    [self EXCEPT !.original_received_count = 0,
                 !.received = FixedBitSet_clear(self.received)]

DecoderWork_reset_received(self) ==
    [self EXCEPT !.original_received_count = 0,
                 !.recovery_received_count = 0,
                 !.received = FixedBitSet_clear(self.received)]

DecoderWork_restored_original(self, index) ==
    LET pos == self.original_base_pos + index
    IN  IF index < self.original_count /\ ~FixedBitSet_index(self.received, pos)
        THEN Some(SubSlice(AsFlattened(Shards_index(self.shards, pos)),
                           0, self.shard_bytes))
        ELSE None

DecoderWork_undo_last_chunk_encoding(self) ==
    [self EXCEPT !.shards =
        Shards_undo_last_chunk_encoding(self.shards, self.shard_bytes,
            self.original_base_pos,
            self.original_base_pos + self.original_count)]

DecoderWork_missing_original_count(self) ==
    self.original_count - self.original_received_count

\* ----------------------------------------------------------------------
\* EncoderResult and Recovery (encoder_result.rs)

\* EncoderResult::recovery
EncoderResult_recovery(work, index) == EncoderWork_recovery(work, index)

\* Recovery::new; the iterator's reference to the work is the argument
\* `work` of its methods.
Recovery_new(work) == [ended |-> FALSE, next_index |-> 0]

\* Faulty variant: next_index advances by two.
Recovery_next_Skip(self, work) ==
    IF self.ended
    THEN [iter |-> self, ret |-> None]
    ELSE IF EncoderWork_recovery(work, self.next_index) # None
    THEN [iter |-> [self EXCEPT !.next_index = self.next_index + 2],
          ret |-> EncoderWork_recovery(work, self.next_index)]
    ELSE [iter |-> [self EXCEPT !.ended = TRUE], ret |-> None]

\* Returns the iterator after the call and the value the call returns.
Recovery_next(self, work) ==
    IF self.ended
    THEN [iter |-> self, ret |-> None]
    ELSE IF EncoderWork_recovery(work, self.next_index) # None
    THEN [iter |-> [self EXCEPT !.next_index = self.next_index + 1],
          ret |-> EncoderWork_recovery(work, self.next_index)]
    ELSE [iter |-> [self EXCEPT !.ended = TRUE], ret |-> None]

\* Faulty variant: the shards already returned are not subtracted.
Recovery_size_hint_Whole(self, work) ==
    LET remaining == EncoderWork_recovery_count(work)
    IN  <<remaining, Some(remaining)>>

\* (lower, upper)
Recovery_size_hint(self, work) ==
    LET remaining == EncoderWork_recovery_count(work) - self.next_index
    IN  <<remaining, Some(remaining)>>

\* ExactSizeIterator::len of an iterator with the given size_hint: asserts
\* that the two bounds agree and returns the lower one.
ExactSizeIterator_len(size_hint) ==
    IF size_hint[2] = Some(size_hint[1]) THEN size_hint[1] ELSE Panic

\* ----------------------------------------------------------------------
\* DecoderResult and RestoredOriginal (decoder_result.rs)

\* DecoderResult::restored_original.  DecoderWork::restored_original adds
\* index to original_base_pos before it looks at index: with overflow
\* checks the call panics when the sum does not fit a usize; without them
\* the sum wraps, and is used only when index < original_count.
DecoderResult_restored_original(work, index, overflow_checks) ==
    IF overflow_checks /\ work.original_base_pos + index > USIZE_MAX
    THEN Panic
    ELSE DecoderWork_restored_original(work, index)

\* RestoredOriginal::new
\* Faulty variant: every original is counted as missing.
RestoredOriginal_new_All(work) ==
    [remaining |-> DecoderWork_original_count(work), next_index |-> 0]

RestoredOriginal_new(work) ==
    [remaining |-> DecoderWork_missing_original_count(work), next_index |-> 0]

\* The while loop of RestoredOriginal::next: the first index from `index`
\* on that restored_original has a shard for, original_count if none.
RECURSIVE NextRestored(_, _)
NextRestored(work, index) ==
    IF index >= DecoderWork_original_count(work) THEN index
    ELSE IF DecoderWork_restored_original(work, index) # None THEN index
    ELSE NextRestored(work, index + 1)

\* Faulty variant: next_index stays at the index returned.
RestoredOriginal_next_Stay(self, work, debug_assertions) ==
    LET index == NextRestored(work, self.next_index)
    IN  IF self.remaining = 0
        THEN [iter |-> self, ret |-> None]
        ELSE IF index < DecoderWork_original_count(work)
        THEN [iter |-> [remaining |-> self.remaining - 1,
                        next_index |-> index],
              ret |-> Some(<<index,
                             DecoderWork_restored_original(work, index).value>>)]
        ELSE [iter |-> self,
              ret |-> IF debug_assertions THEN Panic ELSE None]

\* Returns the iterator after the call and the value the call returns.
\* debug_assertions: whether debug_assert! is compiled in.
RestoredOriginal_next(self, work, debug_assertions) ==
    LET index == NextRestored(work, self.next_index)
    IN  IF self.remaining = 0
        THEN [iter |-> self, ret |-> None]
        ELSE IF index < DecoderWork_original_count(work)
        THEN [iter |-> [remaining |-> self.remaining - 1,
                        next_index |-> index + 1],
              ret |-> Some(<<index,
                             DecoderWork_restored_original(work, index).value>>)]
        ELSE [iter |-> self,
              ret |-> IF debug_assertions THEN Panic ELSE None]

\* (lower, upper)
RestoredOriginal_size_hint(self) == <<self.remaining, Some(self.remaining)>>

\* ----------------------------------------------------------------------
\* GF(2^16) and the engines (not among the source files; from the
\* specification, sections 3, 4.1 and 4.2)

\* Field order.
GF_ORDER == 65536

\* x^16 + x^12 + x^3 + x + 1
GF_POLYNOMIAL == 69643

\* Bitwise exclusive or.
RECURSIVE XorBits(_, _)
XorBits(a, b) ==
    IF a = 0 THEN b
    ELSE IF b = 0 THEN a
    ELSE ((a + b) % 2) + 2 * XorBits(a \div 2, b \div 2)

\* Exclusive or of two bytes, tabulated.
XorTable == [a \in 0..255 |-> [b \in 0..255 |-> XorBits(a, b)]]

\* Field addition: exclusive or of the two 16-bit values.
GfAdd(a, b) ==
    IF a = 0 THEN b
    ELSE IF b = 0 THEN a
    ELSE XorTable[a % 256][b % 256] + 256 * XorTable[a \div 256][b \div 256]

\* Product by x, reduced by the polynomial.
GfMulX(a) ==
    IF 2 * a >= GF_ORDER
    THEN GfAdd(2 * a - GF_ORDER, GF_POLYNOMIAL - GF_ORDER)
    ELSE 2 * a

\* Field product of a by the polynomial of the two bits of d.
GfMulPair(a, d) ==
    IF d = 0 THEN 0
    ELSE IF d = 1 THEN a
    ELSE IF d = 2 THEN GfMulX(a)
    ELSE GfAdd(a, GfMulX(a))

\* acc + a * b, b taken two bits at a time (acc is a field element, and is
\* evaluated at every step).
RECURSIVE GfMulAcc(_, _, _)
GfMulAcc(a, b, acc) ==
    IF acc >= GF_ORDER \/ b = 0 THEN acc
    ELSE GfMulAcc(GfMulX(GfMulX(a)), b \div 4, GfAdd(acc, GfMulPair(a, b % 4)))

\* Field product of two elements.
GfMul(a, b) == IF a = 0 \/ b = 0 THEN 0 ELSE GfMulAcc(a, b, 0)

GfSquare(a) == GfMul(a, a)

\* a^d for d < 4.
GfPowPair(a, d) ==
    IF d = 0 THEN 1
    ELSE IF d = 1 THEN a
    ELSE IF d = 2 THEN GfSquare(a)
    ELSE GfMul(a, GfSquare(a))

\* acc * a^n, n taken two bits at a time (acc is a field element, and is
\* evaluated at every step).
RECURSIVE GfPowAcc(_, _, _)
GfPowAcc(a, n, acc) ==
    IF acc >= GF_ORDER \/ n = 0 THEN acc
    ELSE GfPowAcc(GfSquare(GfSquare(a)), n \div 4,
                  GfMul(acc, GfPowPair(a, n % 4)))

GfPow(a, n) == GfPowAcc(a, n, 1)

GfInv(a) == GfPow(a, GF_ORDER - 2)

Engines == {"Naive", "NoSimd", "Ssse3", "Avx2", "Neon"}

\* Faulty variant: the SIMD engines leave out the partial product of the highest
\* nibble.
Engine_mul_Off(e, m, y) ==
    IF e = "Naive" THEN GfMul(m, y)
    ELSE IF e = "NoSimd"
    THEN GfAdd(GfMul(m, y % 256), GfMul(m, 256 * (y \div 256)))
    ELSE GfAdd(GfAdd(GfMul(m, y % 16),
                     GfMul(m, 16 * ((y \div 16) % 16))),
               GfMul(m, 256 * ((y \div 256) % 16)))

\* Engine::mul on one element y, by the multiplier m.
\* Naive multiplies element by element; NoSimd looks each byte of y up in a
\* 16-bit table; the SIMD engines look up the four nibbles of y and
\* exclusive-or the four partial products.
Engine_mul(e, m, y) ==
    IF e = "Naive" THEN GfMul(m, y)
    ELSE IF e = "NoSimd"
    THEN GfAdd(GfMul(m, y % 256), GfMul(m, 256 * (y \div 256)))
    ELSE GfAdd(GfAdd(GfMul(m, y % 16),
                     GfMul(m, 16 * ((y \div 16) % 16))),
               GfAdd(GfMul(m, 256 * ((y \div 256) % 16)),
                     GfMul(m, 4096 * (y \div 4096))))

\* The GF element at position b (0 <= b < 32) of a chunk: low byte at b,
\* high byte at b + 32.
ChunkElement(chunk, b) == chunk[b] + 256 * chunk[b + 32]

\* ----------------------------------------------------------------------
\* The rate layer (not among the source files; from the specification,
\* sections 3, 4.4 and 6)

Rates == {"HighRate", "LowRate"}

IsPowerOfTwo(n) == n >= 1 /\ NextPowerOfTwo(n) = n

Rate_supports(r, original_count, recovery_count) ==
    /\ original_count >= 1
    /\ recovery_count >= 1
    /\ original_count + recovery_count <= GF_ORDER
    /\ IF r = "HighRate"
       THEN original_count <= NextPowerOfTwo(recovery_count)
       ELSE recovery_count <= NextPowerOfTwo(original_count)

Rate_validate(r, original_count, recovery_count, shard_bytes) ==
    /\ Rate_supports(r, original_count, recovery_count)
    /\ shard_bytes >= 2
    /\ shard_bytes % 2 = 0

Rate_original_base_pos(r, original_count, recovery_count) ==
    IF r = "HighRate" THEN NextPowerOfTwo(recovery_count) ELSE 0

Rate_recovery_base_pos(r, original_count, recovery_count) ==
    IF r = "HighRate" THEN 0 ELSE NextPowerOfTwo(original_count)

Rate_work_count(r, original_count, recovery_count) ==
    LET rounded == IF r = "HighRate"
                   THEN NextPowerOfTwo(recovery_count) + original_count
                   ELSE NextPowerOfTwo(original_count) + recovery_count
    IN  IF IsPowerOfTwo(rounded) THEN rounded
        ELSE NextPowerOfTwo(original_count + recovery_count)

\* RateEncoder::new / RateDecoder::new: validate, then reset the work.
Rate_encoder(r, original_count, recovery_count, shard_bytes) ==
    EncoderWork_reset(EncoderWork_new, original_count, recovery_count,
        shard_bytes, Rate_work_count(r, original_count, recovery_count))

Rate_decoder(r, original_count, recovery_count, shard_bytes) ==
    DecoderWork_reset(DecoderWork_new, original_count, recovery_count,
        shard_bytes,
        Rate_original_base_pos(r, original_count, recovery_count),
        Rate_recovery_base_pos(r, original_count, recovery_count),
        Rate_work_count(r, original_count, recovery_count))

\* The shards of one codeword are the values of one polynomial of degree
\* below original_count at the field points of their positions: point p
\* for the shard at position p of the rate's layout.

\* Value at point x of the k-th Lagrange basis polynomial over points.
RECURSIVE LagrangeBasis(_, _, _, _)
LagrangeBasis(points, k, x, n) ==
    IF n = 0 THEN 1
    ELSE IF n = k THEN LagrangeBasis(points, k, x, n - 1)
    ELSE GfMul(LagrangeBasis(points, k, x, n - 1),
               GfMul(GfAdd(x, points[n]),
                     GfInv(GfAdd(points[k], points[n]))))

RECURSIVE LagrangeCoefficients(_, _, _)
LagrangeCoefficients(points, x, k) ==
    IF k = 0 THEN <<>>
    ELSE Append(LagrangeCoefficients(points, x, k - 1),
                LagrangeBasis(points, k, x, Len(points)))

\* Sum over the nodes of coefficient times the element at position b of
\* chunk w of the node's slot.
RECURSIVE CombineElements(_, _, _, _, _, _, _)
CombineElements(e, shards, slots, coefficients, w, b, n) ==
    IF n = 0 THEN 0
    ELSE GfAdd(CombineElements(e, shards, slots, coefficients, w, b, n - 1),
               Engine_mul(e, coefficients[n],
                   ChunkElement(shards.data[slots[n] * shards.shard_len_64 + w], b)))

\* <<element from, ..., element from + n - 1>> of chunk w of the combination
\* (n >= 1), built by halves.
RECURSIVE CombinedChunk(_, _, _, _, _, _, _)
CombinedChunk(e, shards, slots, coefficients, w, from, n) ==
    IF n = 1
    THEN <<CombineElements(e, shards, slots, coefficients, w, from, Len(slots))>>
    ELSE CombinedChunk(e, shards, slots, coefficients, w, from, n \div 2)
         \o CombinedChunk(e, shards, slots, coefficients, w,
                          from + n \div 2, n - n \div 2)

\* Chunk w of the shard at point x of the codeword whose values at points
\* are in the store's slots.
InterpolateChunk(e, shards, slots, points, x, w) ==
    LET coefficients == LagrangeCoefficients(points, x, Len(points))
        elements ==
            IF Len(coefficients) = Len(points)
            THEN CombinedChunk(e, shards, slots, coefficients, w, 0, 32)
            ELSE <<>>
    IN  [b \in 0..63 |->
            IF b < 32 THEN elements[b + 1] % 256
            ELSE elements[b - 32 + 1] \div 256]

\* The transforms work in place and leave intermediate values in the slots
\* that hold no output; the model fills them with this byte.
RESIDUE_BYTE == 165

ResidueChunk == [b \in 0..63 |-> RESIDUE_BYTE]

\* <<from, from + 1, ..., from + n - 1>>
RECURSIVE Consecutive(_, _)
Consecutive(from, n) ==
    IF n = 0 THEN <<>> ELSE Append(Consecutive(from, n - 1), from + n - 1)

\* RateEncoder::encode after encode_begin succeeded: the transforms, then
\* undo_last_chunk_encoding.  The originals are read from the slots
\* EncoderWork::add_original_shard wrote, the recovery shards are left in
\* the slots EncoderWork::recovery reads.
RateEncoder_encode(e, r, work) ==
    LET shards == work.shards
        slots == Consecutive(0, work.original_count)
        points == Consecutive(
            Rate_original_base_pos(r, work.original_count, work.recovery_count),
            work.original_count)
        recovery_base_pos ==
            Rate_recovery_base_pos(r, work.original_count, work.recovery_count)
        transformed ==
            [c \in DOMAIN shards.data |->
                IF c \div shards.shard_len_64 < work.recovery_count
                THEN InterpolateChunk(e, shards, slots, points,
                         recovery_base_pos + c \div shards.shard_len_64,
                         c % shards.shard_len_64)
                ELSE ResidueChunk]
    IN  EncoderWork_undo_last_chunk_encoding(
            [work EXCEPT !.shards.data = transformed])

\* The first n positions whose received bit is set, in ascending order.
RECURSIVE ReceivedPositions(_, _, _)
ReceivedPositions(received, from, n) ==
    IF n = 0 \/ from \notin DOMAIN received THEN <<>>
    ELSE IF received[from]
    THEN <<from>> \o ReceivedPositions(received, from + 1, n - 1)
    ELSE ReceivedPositions(received, from + 1, n)

\* RateDecoder::decode after decode_begin returned the store: the
\* transforms, then undo_last_chunk_encoding.  Slots whose received bit is
\* false are not read.
RateDecoder_decode(e, work) ==
    LET shards == work.shards
        nodes == ReceivedPositions(work.received, 0, work.original_count)
        restored(slot) ==
            /\ slot >= work.original_base_pos
            /\ slot < work.original_base_pos + work.original_count
            /\ ~FixedBitSet_index(work.received, slot)
        transformed ==
            [c \in DOMAIN shards.data |->
                IF restored(c \div shards.shard_len_64)
                THEN InterpolateChunk(e, shards, nodes, nodes,
                         c \div shards.shard_len_64, c % shards.shard_len_64)
                ELSE ResidueChunk]
    IN  DecoderWork_undo_last_chunk_encoding(
            [work EXCEPT !.shards.data = transformed])

\* ----------------------------------------------------------------------
\* The callers

\* (rate, original_count, recovery_count, shard_bytes) of the instances built.
Configs ==
    { <<"HighRate", 2, 2, 2>>,
      <<"LowRate", 2, 1, 6>>,
      <<"HighRate", 1, 2, 64>> }

\* The batches the caller may encode in a session: MaxSeeds of them, other
\* ones in every session.
Seeds == { sessions.encoder * MaxSeeds + s : s \in 1..MaxSeeds }

\* The shard of len bytes the caller holds as number n of batch seed.
Shard(seed, n, len) ==
    [k \in 0..(len - 1) |-> (37 * seed + 101 * n + 11 * k + 1) % 256]

\* The batch the shards accepted so far belong to, if any.
BatchSeeds ==
    IF accepted = <<>> THEN Seeds
    ELSE { seed \in Seeds :
             accepted[1] = Shard(seed, 0, encoder_work.shard_bytes) }

\* Shard lengths the callers try for an instance with shard size S.
Lengths(shard_bytes) == {shard_bytes - 2, shard_bytes, shard_bytes + 2}

NoneSupplied == [original |-> <<>>, recovery |-> <<>>]

Supply(shards, index, shard) ==
    [i \in DOMAIN shards \cup {index} |->
        IF i = index THEN shard ELSE shards[i]]

\* The decoder is used while an EncoderResult lends the recovery shards,
\* for at most one session per session of the encoder.
DecoderInUse ==
    /\ encoder_result
    /\ sessions.decoder <= sessions.encoder

\* No iterator was made of the result.
NoIter == [tag |-> "NoIter"]

NoneYielded == [recovery |-> <<>>, restored_original |-> <<>>]

\* The encoder and the decoder built for cfg on engine e.
Construct(cfg, e) ==
    /\ Rate_validate(cfg[1], cfg[2], cfg[3], cfg[4])
    /\ config = cfg
    /\ engine = e
    /\ encoder_work = Rate_encoder(cfg[1], cfg[2], cfg[3], cfg[4])
    /\ encoder_result = FALSE
    /\ encoder_ret = NoCall
    /\ decoder_work = Rate_decoder(cfg[1], cfg[2], cfg[3], cfg[4])
    /\ decoder_result = FALSE
    /\ decoder_ret = NoCall
    /\ accepted = <<>>
    /\ supplied = NoneSupplied
    /\ sessions = [encoder |-> 0, decoder |-> 0]
    /\ recovery_iter = NoIter
    /\ restored_original_iter = NoIter
    /\ yielded = NoneYielded
    /\ validate_ret = Ok
    /\ resets = <<>>

\* No store is used on its own.
NoStore ==
    /\ store = Shards_new
    /\ store_shard_bytes = 0
    /\ store_inserted = <<>>
    /\ store_undone = {}
    /\ view_ret = NoCall

Init == \E cfg \in Configs : Construct(cfg, "Naive") /\ NoStore

\* The same instances on every engine.
InitEngines == \E cfg \in Configs, e \in Engines : Construct(cfg, e) /\ NoStore

decoder_vars == <<decoder_work, decoder_result, decoder_ret, supplied>>
encoder_vars == <<encoder_work, encoder_result, encoder_ret, accepted>>

\* encoder.add_original_shard(shard)
Encoder_add_original_shard(shard) ==
    /\ ~encoder_result
    /\ sessions.encoder < MaxSessions
    /\ LET r == EncoderWork_add_original_shard(encoder_work, shard)
       IN  /\ encoder_work' = r.work
           /\ encoder_ret' = r.ret
           /\ accepted' = IF r.ret = Ok THEN Append(accepted, shard) ELSE accepted
    /\ UNCHANGED <<encoder_result, decoder_vars, config, engine, unit_vars, iter_vars, sessions>>

\* encoder.encode()
Encoder_encode ==
    /\ ~encoder_result
    /\ sessions.encoder < MaxSessions
    /\ LET begin == EncoderWork_encode_begin(encoder_work)
       IN  IF begin = Ok
           THEN /\ encoder_work' = RateEncoder_encode(engine, config[1], encoder_work)
                /\ encoder_result' = TRUE
                /\ encoder_ret' = Ok
           ELSE /\ encoder_ret' = begin
                /\ UNCHANGED <<encoder_work, encoder_result>>
    /\ UNCHANGED <<accepted, decoder_vars, config, engine, unit_vars, iter_vars, sessions>>

\* drop(EncoderResult), once the decoder has finished its session of the
\* round and no iterator borrows the result.
EncoderResult_drop ==
    /\ encoder_result
    /\ recovery_iter = NoIter
    /\ sessions.decoder > sessions.encoder
    /\ ~decoder_result
    /\ decoder_work.original_received_count = 0
    /\ decoder_work.recovery_received_count = 0
    /\ encoder_work' = EncoderWork_reset_received(encoder_work)
    /\ encoder_result' = FALSE
    /\ encoder_ret' = NoCall
    /\ accepted' = <<>>
    /\ sessions' = [sessions EXCEPT !.encoder = @ + 1]
    /\ UNCHANGED <<decoder_vars, config, engine, unit_vars, iter_vars>>

\* Indexes the decoder's caller tries for a region of count shards.
Indexes(count) == 0..count \cup {USIZE_MAX}

\* Shards of a wrong length.
WrongSizeShards ==
    { Shard(1, 0, len) : len \in Lengths(decoder_work.shard_bytes)
                                     \ {decoder_work.shard_bytes} }

\* Shards the caller passes as original `index`: the original the encoder
\* accepted under that index, and shards of a wrong length.
OriginalShards(index) ==
    (IF index < Len(accepted) THEN {accepted[index + 1]}
     ELSE {Shard(1, 0, decoder_work.shard_bytes)}) \cup WrongSizeShards

\* Shards the caller passes as recovery `index`: the recovery shard the
\* EncoderResult returns under that index, and shards of a wrong length.
RecoveryShards(index) ==
    (IF EncoderWork_recovery(encoder_work, index) # None
     THEN {EncoderWork_recovery(encoder_work, index).value}
     ELSE {Shard(1, 0, decoder_work.shard_bytes)}) \cup WrongSizeShards

\* Build profiles to tell apart for base_pos + index: with and without
\* overflow checks when the sum overflows, any one otherwise.
OverflowChecks(base_pos, index) ==
    IF base_pos + index > USIZE_MAX THEN BOOLEAN ELSE {TRUE}

\* decoder.add_original_shard(index, shard)
Decoder_add_original_shard(index, shard) ==
    /\ DecoderInUse
    /\ ~decoder_result
    /\ \E overflow_checks \in OverflowChecks(decoder_work.original_base_pos, index) :
         LET r == DecoderWork_add_original_shard(decoder_work, index, shard,
                                                 overflow_checks)
         IN  /\ decoder_work' = r.work
             /\ decoder_ret' = r.ret
             /\ supplied' = IF r.ret = Ok
                            THEN [supplied EXCEPT !.original = Supply(@, index, shard)]
                            ELSE supplied
    /\ UNCHANGED <<decoder_result, encoder_vars, config, engine, unit_vars, iter_vars, sessions>>

\* decoder.add_recovery_shard(index, shard)
Decoder_add_recovery_shard(index, shard) ==
    /\ DecoderInUse
    /\ ~decoder_result
    /\ \E overflow_checks \in OverflowChecks(decoder_work.recovery_base_pos, index) :
         LET r == DecoderWork_add_recovery_shard(decoder_work, index, shard,
                                                 overflow_checks)
         IN  /\ decoder_work' = r.work
             /\ decoder_ret' = r.ret
             /\ supplied' = IF r.ret = Ok
                            THEN [supplied EXCEPT !.recovery = Supply(@, index, shard)]
                            ELSE supplied
    /\ UNCHANGED <<decoder_result, encoder_vars, config, engine, unit_vars, iter_vars, sessions>>

\* decoder.decode()
Decoder_decode ==
    /\ DecoderInUse
    /\ ~decoder_result
    /\ LET begin == DecoderWork_decode_begin(decoder_work)
       IN  IF begin.tag # "Ok"
           THEN /\ decoder_ret' = begin
                /\ UNCHANGED <<decoder_work, decoder_result>>
           ELSE IF ~begin.work
           THEN /\ decoder_ret' = Ok
                /\ decoder_result' = TRUE
                /\ UNCHANGED decoder_work
           ELSE /\ decoder_work' = RateDecoder_decode(engine, decoder_work)
                /\ decoder_result' = TRUE
                /\ decoder_ret' = Ok
    /\ UNCHANGED <<supplied, encoder_vars, config, engine, unit_vars, iter_vars, sessions>>

\* drop(DecoderResult), when no iterator borrows the result.
DecoderResult_drop ==
    /\ decoder_result
    /\ restored_original_iter = NoIter
    /\ decoder_work' = DecoderWork_reset_received(decoder_work)
    /\ decoder_result' = FALSE
    /\ decoder_ret' = NoCall
    /\ supplied' = NoneSupplied
    /\ sessions' = [sessions EXCEPT !.decoder = @ + 1]
    /\ UNCHANGED <<encoder_vars, config, engine, unit_vars, iter_vars>>

\* One session: the shards are added, the results are produced.
Session ==
    \/ \E seed \in BatchSeeds, len \in Lengths(encoder_work.shard_bytes) :
           Encoder_add_original_shard(Shard(seed, Len(accepted), len))
    \/ Encoder_encode
    \/ \E index \in Indexes(decoder_work.original_count) :
           \E shard \in OriginalShards(index) :
               Decoder_add_original_shard(index, shard)
    \/ \E index \in Indexes(decoder_work.recovery_count) :
           \E shard \in RecoveryShards(index) :
               Decoder_add_recovery_shard(index, shard)
    \/ Decoder_decode

Next ==
    \/ Session
    \/ EncoderResult_drop
    \/ DecoderResult_drop

Spec == Init /\ [][Next]_vars

\* One session of the instances on every engine.
SpecEngines == InitEngines /\ [][Session]_vars

\* One session of the two instances, no result dropped.
SpecSession == Init /\ [][Session]_vars

\* Number of calls of next() that returned None.
Exhausted(returns) ==
    Cardinality({k \in DOMAIN returns : returns[k] = None})

\* result.recovery_iter() on the EncoderResult
EncoderResult_recovery_iter ==
    /\ encoder_result
    /\ recovery_iter = NoIter
    /\ recovery_iter' = Recovery_new(encoder_work)
    /\ yielded' = [yielded EXCEPT !.recovery = <<>>]
    /\ UNCHANGED <<encoder_vars, decoder_vars, config, engine, unit_vars, sessions,
                   restored_original_iter>>

\* iter.next() on the Recovery iterator
RecoveryIter_next ==
    /\ encoder_result
    /\ recovery_iter # NoIter
    /\ Exhausted(yielded.recovery) < MaxExhausted
    /\ LET r == Recovery_next(recovery_iter, encoder_work)
       IN  /\ recovery_iter' = r.iter
           /\ yielded' = [yielded EXCEPT !.recovery = Append(@, r.ret)]
    /\ UNCHANGED <<encoder_vars, decoder_vars, config, engine, unit_vars, sessions,
                   restored_original_iter>>

\* result.restored_original_iter() on the DecoderResult
DecoderResult_restored_original_iter ==
    /\ decoder_result
    /\ restored_original_iter = NoIter
    /\ restored_original_iter' = RestoredOriginal_new(decoder_work)
    /\ yielded' = [yielded EXCEPT !.restored_original = <<>>]
    /\ UNCHANGED <<encoder_vars, decoder_vars, config, engine, unit_vars, sessions,
                   recovery_iter>>

\* iter.next() on the RestoredOriginal iterator
RestoredOriginalIter_next ==
    /\ decoder_result
    /\ restored_original_iter # NoIter
    /\ Exhausted(yielded.restored_original) < MaxExhausted
    /\ \E debug_assertions \in BOOLEAN :
         LET r == RestoredOriginal_next(restored_original_iter, decoder_work,
                                        debug_assertions)
         IN  /\ restored_original_iter' = r.iter
             /\ yielded' = [yielded EXCEPT
                               !.restored_original = Append(@, r.ret)]
    /\ UNCHANGED <<encoder_vars, decoder_vars, config, engine, unit_vars, sessions,
                   recovery_iter>>

\* One session, and the results read through their iterators.
NextIter ==
    \/ Session
    \/ EncoderResult_recovery_iter
    \/ RecoveryIter_next
    \/ DecoderResult_restored_original_iter
    \/ RestoredOriginalIter_next

SpecIter == Init /\ [][NextIter]_vars

\* ----------------------------------------------------------------------
\* A Shards store used on its own (engine/shards.rs)

\* Shard sizes around the chunk boundaries.
TailShardBytes == {2, 4, 6, 30, 32, 34, 62, 64, 66, 126, 128, 130}

\* The slots from (included) to `to` (excluded).
SlotRange(from, to) == from..(to - 1)

\* store.resize(shard_count, shard_bytes.div_ceil(64)) on the new store
Store_resize(shard_count, shard_bytes) ==
    /\ store = Shards_new
    /\ store' = Shards_resize(store, shard_count, DivCeil(shard_bytes, 64))
    /\ store_shard_bytes' = shard_bytes
    /\ UNCHANGED <<store_inserted, store_undone, view_ret>>
    /\ UNCHANGED <<session_vars, validate_ret, resets>>

\* store.insert(index, shard), for a shard that fits a slot not yet filled
Store_insert(index, shard) ==
    /\ store # Shards_new
    /\ index \notin DOMAIN store_inserted
    /\ ~Shards_insert_panics(store, index, shard)
    /\ store' = Shards_insert(store, index, shard)
    /\ store_inserted' = Supply(store_inserted, index, shard)
    /\ store_undone' = store_undone \ {index}
    /\ UNCHANGED <<store_shard_bytes, view_ret>>
    /\ UNCHANGED <<session_vars, validate_ret, resets>>

\* store.undo_last_chunk_encoding(shard_bytes, from..to), once for a slot
\* after its shard was inserted
Store_undo_last_chunk_encoding(from, to) ==
    /\ store # Shards_new
    /\ from < to
    /\ to <= store.shard_count
    /\ SlotRange(from, to) \cap store_undone = {}
    /\ store' = Shards_undo_last_chunk_encoding(store, store_shard_bytes, from, to)
    /\ store_undone' = store_undone \cup SlotRange(from, to)
    /\ UNCHANGED <<store_shard_bytes, store_inserted, view_ret>>
    /\ UNCHANGED <<session_vars, validate_ret, resets>>

NextShards ==
    \/ \E shard_count \in 1..MaxShardCount, shard_bytes \in TailShardBytes :
           Store_resize(shard_count, shard_bytes)
    \/ \E index \in 0..(MaxShardCount - 1), len \in Lengths(store_shard_bytes) :
           Store_insert(index, Shard(1, index, len))
    \/ \E from \in 0..(MaxShardCount - 1), to \in 1..MaxShardCount :
           Store_undo_last_chunk_encoding(from, to)

\* A store of its own: sized, filled, un-split.
InitShards == Construct(<<"HighRate", 2, 2, 2>>, "Naive") /\ NoStore

SpecShards == InitShards /\ [][NextShards]_vars

\* ----------------------------------------------------------------------
\* The view of a store (engine/shards.rs)

\* store.as_ref_mut().dist2_mut(pos, dist), the one call made on the view
View_dist2_mut(pos, dist) ==
    /\ store # Shards_new
    /\ view_ret = NoCall
    /\ view_ret' = [call |-> "dist2_mut", pos |-> pos, dist |-> dist,
                    ret |-> ShardsRefMut_dist2_mut(Shards_as_ref_mut(store),
                                                   pos, dist)]
    /\ UNCHANGED <<store, store_shard_bytes, store_inserted, store_undone>>
    /\ UNCHANGED <<session_vars, validate_ret, resets>>

\* store.as_ref_mut().dist4_mut(pos, dist), the one call made on the view
View_dist4_mut(pos, dist) ==
    /\ store # Shards_new
    /\ view_ret = NoCall
    /\ view_ret' = [call |-> "dist4_mut", pos |-> pos, dist |-> dist,
                    ret |-> ShardsRefMut_dist4_mut(Shards_as_ref_mut(store),
                                                   pos, dist)]
    /\ UNCHANGED <<store, store_shard_bytes, store_inserted, store_undone>>
    /\ UNCHANGED <<session_vars, validate_ret, resets>>

\* Shard sizes of the stores whose view is used: those of the tests, and
\* none (shards of no chunk).
ViewShardBytes == TailShardBytes \cup {0}

NextView ==
    \/ \E shard_count \in 1..MaxViewShards, shard_bytes \in ViewShardBytes :
           Store_resize(shard_count, shard_bytes)
    \/ \E pos \in 0..MaxViewShards, dist \in 0..MaxViewShards :
           View_dist2_mut(pos, dist)
    \/ \E pos \in 0..MaxViewShards, dist \in 0..MaxViewShards :
           View_dist4_mut(pos, dist)

\* A store sized, and shards borrowed from its view.
SpecView == InitShards /\ [][NextView]_vars

View_flat2_mut(x, y, count) ==
    /\ store # Shards_new
    /\ view_ret = NoCall
    /\ view_ret' = [call |-> "flat2_mut", x |-> x, y |-> y, count |-> count,
                    ret |-> ShardsRefMut_flat2_mut(Shards_as_ref_mut(store),
                                                   x, y, count)]
    /\ UNCHANGED <<store, store_shard_bytes, store_inserted, store_undone>>
    /\ UNCHANGED <<session_vars, validate_ret, resets>>

NextFlat ==
    \/ \E shard_count \in 1..MaxViewShards, shard_bytes \in ViewShardBytes :
           Store_resize(shard_count, shard_bytes)
    \/ \E x \in 0..MaxViewShards, y \in 0..MaxViewShards,
          count \in 0..MaxViewShards :
           View_flat2_mut(x, y, count)

\* A store sized, and two ranges of shards borrowed from its view.
SpecFlat == InitShards /\ [][NextFlat]_vars

\* ----------------------------------------------------------------------
\* The rates tried with any parameters (tests/integration_test.rs)

\* (rate, original_count, recovery_count, shard_bytes) of high_rate and of
\* low_rate.
TestConfigs ==
    { <<"HighRate", 35000, 1000, 64>>,
      <<"LowRate", 1000, 35000, 64>> }

\* Parameters the callers try.
RateConfigs ==
    (Rates \X (0..MaxCount) \X (0..MaxCount) \X {0, 2, 3, 64}) \cup TestConfigs

InitRate ==
    /\ config \in RateConfigs
    /\ engine = "Naive"
    /\ encoder_work = EncoderWork_new
    /\ encoder_result = FALSE
    /\ encoder_ret = NoCall
    /\ decoder_work = DecoderWork_new
    /\ decoder_result = FALSE
    /\ decoder_ret = NoCall
    /\ accepted = <<>>
    /\ supplied = NoneSupplied
    /\ sessions = [encoder |-> 0, decoder |-> 0]
    /\ recovery_iter = NoIter
    /\ restored_original_iter = NoIter
    /\ yielded = NoneYielded
    /\ validate_ret = NoCall
    /\ resets = <<>>
    /\ NoStore

\* R::validate(original_count, recovery_count, shard_bytes)
Rate_call_validate ==
    /\ validate_ret = NoCall
    /\ validate_ret' =
           IF ~Rate_supports(config[1], config[2], config[3])
           THEN [tag |-> "UnsupportedShardCount",
                 original_count |-> config[2],
                 recovery_count |-> config[3]]
           ELSE IF ~Rate_validate(config[1], config[2], config[3], config[4])
           THEN [tag |-> "InvalidShardSize", shard_bytes |-> config[4]]
           ELSE Ok
    /\ UNCHANGED <<session_vars, resets, store_vars>>

\* R::decoder(original_count, recovery_count, shard_bytes), once the
\* parameters were validated
Rate_call_decoder ==
    /\ validate_ret = Ok
    /\ decoder_work = DecoderWork_new
    /\ decoder_work' = Rate_decoder(config[1], config[2], config[3], config[4])
    /\ UNCHANGED <<decoder_result, decoder_ret, supplied, encoder_vars,
                   config, engine, sessions, iter_vars, unit_vars>>

\* decoder.add_original_shard(index, shard) on the decoder built
RateDecoder_add_original_shard(index, shard) ==
    /\ decoder_work # DecoderWork_new
    /\ \E overflow_checks \in OverflowChecks(decoder_work.original_base_pos, index) :
         LET r == DecoderWork_add_original_shard(decoder_work, index, shard,
                                                 overflow_checks)
         IN  /\ decoder_work' = r.work
             /\ decoder_ret' = r.ret
             /\ supplied' = IF r.ret = Ok
                            THEN [supplied EXCEPT !.original = Supply(@, index, shard)]
                            ELSE supplied
    /\ UNCHANGED <<decoder_result, encoder_vars, config, engine, sessions,
                   iter_vars, unit_vars>>

\* decoder.add_recovery_shard(index, shard) on the decoder built
RateDecoder_add_recovery_shard(index, shard) ==
    /\ decoder_work # DecoderWork_new
    /\ \E overflow_checks \in OverflowChecks(decoder_work.recovery_base_pos, index) :
         LET r == DecoderWork_add_recovery_shard(decoder_work, index, shard,
                                                 overflow_checks)
         IN  /\ decoder_work' = r.work
             /\ decoder_ret' = r.ret
             /\ supplied' = IF r.ret = Ok
                            THEN [supplied EXCEPT !.recovery = Supply(@, index, shard)]
                            ELSE supplied
    /\ UNCHANGED <<decoder_result, encoder_vars, config, engine, sessions,
                   iter_vars, unit_vars>>

NextRate ==
    \/ Rate_call_validate
    \/ Rate_call_decoder
    \/ \E index \in Indexes(decoder_work.original_count) :
           RateDecoder_add_original_shard(index,
               Shard(1, index, decoder_work.shard_bytes))
    \/ \E index \in Indexes(decoder_work.recovery_count) :
           RateDecoder_add_recovery_shard(index,
               Shard(2, index, decoder_work.shard_bytes))

\* A rate tried with any parameters: validated, its decoder built and fed.
SpecRate == InitRate /\ [][NextRate]_vars

\* ----------------------------------------------------------------------
\* The work buffers reset for other parameters
\* (rate/encoder_work.rs, rate/decoder_work.rs)

\* Parameters the work buffers are reset for: those they are built with,
\* smaller ones and larger ones.
ResetConfigs ==
    Configs \cup { <<"HighRate", 1, 1, 2>>, <<"LowRate", 3, 2, 66>> }

\* encoder_work.reset(original_count, recovery_count, shard_bytes,
\* work_count), in any state in which no result borrows the work
Encoder_reset(cfg) ==
    /\ ~encoder_result
    /\ Len(resets) < MaxResets
    /\ Rate_validate(cfg[1], cfg[2], cfg[3], cfg[4])
    /\ LET work_count == Rate_work_count(cfg[1], cfg[2], cfg[3])
       IN  /\ encoder_work' = EncoderWork_reset(encoder_work, cfg[2], cfg[3],
                                                cfg[4], work_count)
           /\ resets' = Append(resets, [work |-> "encoder", config |-> cfg,
                                        work_count |-> work_count])
    /\ encoder_ret' = NoCall
    /\ accepted' = <<>>
    /\ UNCHANGED <<encoder_result, decoder_vars, config, engine, sessions,
                   iter_vars, validate_ret, store_vars>>

\* decoder_work.reset(original_count, recovery_count, shard_bytes,
\* original_base_pos, recovery_base_pos, work_count), in any state in which
\* no result borrows the work
Decoder_reset(cfg) ==
    /\ ~decoder_result
    /\ Len(resets) < MaxResets
    /\ Rate_validate(cfg[1], cfg[2], cfg[3], cfg[4])
    /\ LET work_count == Rate_work_count(cfg[1], cfg[2], cfg[3])
       IN  /\ decoder_work' = DecoderWork_reset(decoder_work, cfg[2], cfg[3],
                                  cfg[4],
                                  Rate_original_base_pos(cfg[1], cfg[2], cfg[3]),
                                  Rate_recovery_base_pos(cfg[1], cfg[2], cfg[3]),
                                  work_count)
           /\ resets' = Append(resets, [work |-> "decoder", config |-> cfg,
                                        work_count |-> work_count])
    /\ decoder_ret' = NoCall
    /\ supplied' = NoneSupplied
    /\ UNCHANGED <<decoder_result, encoder_vars, config, engine, sessions,
                   iter_vars, validate_ret, store_vars>>

\* One session of the two instances, to the drop of its results, then the
\* work buffers reset.
NextReset ==
    \/ resets = <<>> /\ sessions.encoder = 0 /\ sessions.decoder <= 1 /\ Next
    \/ \E cfg \in ResetConfigs : Encoder_reset(cfg)
    \/ \E cfg \in ResetConfigs : Decoder_reset(cfg)

SpecReset == Init /\ [][NextReset]_vars

TypeOK ==
    /\ encoder_result \in BOOLEAN
    /\ decoder_result \in BOOLEAN
    /\ config \in Configs
    /\ engine \in Engines

\* ----------------------------------------------------------------------
\* Properties

OriginalCount == config[2]
RecoveryCount == config[3]
ShardBytes == config[4]

\* Number of shards the decoder accepted in its session.
SuppliedCount ==
    Cardinality(DOMAIN supplied.original) + Cardinality(DOMAIN supplied.recovery)

\* The decoder's shards are shards of the encoder's codeword: the originals
\* the encoder accepted and the recovery shards its result returns.
SuppliedFromCodeword ==
    /\ encoder_result
    /\ \A i \in DOMAIN supplied.original :
           i < Len(accepted) /\ supplied.original[i] = accepted[i + 1]
    /\ \A j \in DOMAIN supplied.recovery :
           EncoderWork_recovery(encoder_work, j) = Some(supplied.recovery[j])

RECURSIVE EncoderFed(_, _)
EncoderFed(work, shards) ==
    IF shards = <<>> THEN work
    ELSE EncoderFed(EncoderWork_add_original_shard(work, Head(shards)).work,
                    Tail(shards))

\* The decoder work after add_original_shard of shards[i] for the indexes
\* i < n of shards.
RECURSIVE DecoderFedOriginal(_, _, _)
DecoderFedOriginal(work, shards, n) ==
    IF n = 0 THEN work
    ELSE LET fed == DecoderFedOriginal(work, shards, n - 1)
         IN  IF (n - 1) \in DOMAIN shards
             THEN DecoderWork_add_original_shard(fed, n - 1, shards[n - 1],
                                                 FALSE).work
             ELSE fed

\* The decoder work after add_recovery_shard of shards[j] for the indexes
\* j < n of shards.
RECURSIVE DecoderFedRecovery(_, _, _)
DecoderFedRecovery(work, shards, n) ==
    IF n = 0 THEN work
    ELSE LET fed == DecoderFedRecovery(work, shards, n - 1)
         IN  IF (n - 1) \in DOMAIN shards
             THEN DecoderWork_add_recovery_shard(fed, n - 1, shards[n - 1],
                                                 FALSE).work
             ELSE fed

\* RateDecoder::decode on engine e: decode_begin, and the transforms when
\* it returns the store.
Decoded(e, work) ==
    LET begin == DecoderWork_decode_begin(work)
    IN  IF begin.tag = "Ok" /\ begin.work THEN RateDecoder_decode(e, work)
        ELSE work

\* A freshly constructed encoder that was given the session's originals
\* and encoded them.
FreshEncoded ==
    RateEncoder_encode(engine, config[1],
        EncoderFed(Rate_encoder(config[1], config[2], config[3], config[4]),
                   accepted))

\* A freshly constructed decoder that was given the session's shards and
\* decoded them.
FreshDecoded ==
    Decoded(engine,
        DecoderFedRecovery(
            DecoderFedOriginal(
                Rate_decoder(config[1], config[2], config[3], config[4]),
                supplied.original, OriginalCount),
            supplied.recovery, RecoveryCount))

\* The step is one on which encode / decode returns a result.
EncodeReturnsResult == ~encoder_result /\ encoder_result'
DecodeReturnsResult == ~decoder_result /\ decoder_result'

EncoderResultDropped == encoder_result /\ ~encoder_result'
DecoderResultDropped == decoder_result /\ ~decoder_result'

\* C4: dropping an EncoderResult leaves the encoder with no original
\* received; dropping a DecoderResult leaves the decoder with no original and
\* no recovery shard received and with every bit of the bitmap false; K, M,
\* S and the base positions stay as they were, and every index the decoder
\* received in the round can be added again.
C4_DropResets ==
    [][ /\ EncoderResultDropped =>
              /\ encoder_work'.original_received_count = 0
              /\ encoder_work'.original_count = encoder_work.original_count
              /\ encoder_work'.recovery_count = encoder_work.recovery_count
              /\ encoder_work'.shard_bytes = encoder_work.shard_bytes
        /\ DecoderResultDropped =>
              /\ decoder_work'.original_received_count = 0
              /\ decoder_work'.recovery_received_count = 0
              /\ \A pos \in DOMAIN decoder_work'.received :
                     ~decoder_work'.received[pos]
              /\ decoder_work'.original_count = decoder_work.original_count
              /\ decoder_work'.recovery_count = decoder_work.recovery_count
              /\ decoder_work'.shard_bytes = decoder_work.shard_bytes
              /\ decoder_work'.original_base_pos = decoder_work.original_base_pos
              /\ decoder_work'.recovery_base_pos = decoder_work.recovery_base_pos
              /\ \A i \in DOMAIN supplied.original :
                     DecoderWork_add_original_shard(decoder_work', i,
                         supplied.original[i], FALSE).ret = Ok
              /\ \A j \in DOMAIN supplied.recovery :
                     DecoderWork_add_recovery_shard(decoder_work', j,
                         supplied.recovery[j], FALSE).ret = Ok
      ]_vars

\* Both results of a round were dropped, and nothing was called since.
C4_Witness ==
    /\ sessions.encoder >= 1
    /\ sessions.decoder >= 1
    /\ ~encoder_result
    /\ ~decoder_result
    /\ encoder_ret = NoCall
    /\ decoder_ret = NoCall

TooFewOriginalShards(original_count, original_received_count) ==
    [tag |-> "TooFewOriginalShards",
     original_count |-> original_count,
     original_received_count |-> original_received_count]

\* C5: encode returns a result if and only if exactly K originals were
\* accepted in the session; otherwise it returns TooFewOriginalShards with
\* K and the number accepted.
C5_EncodeIffAllAccepted ==
    /\ ~encoder_result =>
          EncoderWork_encode_begin(encoder_work) =
              IF Len(accepted) = OriginalCount THEN Ok
              ELSE TooFewOriginalShards(OriginalCount, Len(accepted))
    /\ encoder_result => Len(accepted) = OriginalCount
    /\ encoder_ret.tag = "TooFewOriginalShards" =>
          /\ Len(accepted) # OriginalCount
          /\ encoder_ret = TooFewOriginalShards(OriginalCount, Len(accepted))

\* encode was refused with one of two originals accepted.
C5_Witness ==
    /\ encoder_ret.tag = "TooFewOriginalShards"
    /\ OriginalCount = 2
    /\ Len(accepted) = 1

NotEnoughShards(original_count, original_received_count, recovery_received_count) ==
    [tag |-> "NotEnoughShards",
     original_count |-> original_count,
     original_received_count |-> original_received_count,
     recovery_received_count |-> recovery_received_count]

\* C6: decode returns NotEnoughShards, with K and the two numbers of
\* shards received, if and only if fewer than K shards were received in the
\* session; in every other state it succeeds.
C6_DecodeIffEnough ==
    /\ decoder_work.original_received_count
           = Cardinality(DOMAIN supplied.original)
    /\ decoder_work.recovery_received_count
           = Cardinality(DOMAIN supplied.recovery)
    /\ ~decoder_result =>
          IF SuppliedCount < OriginalCount
          THEN DecoderWork_decode_begin(decoder_work) =
                   NotEnoughShards(OriginalCount,
                       Cardinality(DOMAIN supplied.original),
                       Cardinality(DOMAIN supplied.recovery))
          ELSE DecoderWork_decode_begin(decoder_work).tag = "Ok"
    /\ decoder_result => SuppliedCount >= OriginalCount
    /\ decoder_ret.tag = "NotEnoughShards" =>
          /\ SuppliedCount < OriginalCount
          /\ decoder_ret = NotEnoughShards(OriginalCount,
                               Cardinality(DOMAIN supplied.original),
                               Cardinality(DOMAIN supplied.recovery))

\* decode was refused with one shard of the two needed.
C6_Witness ==
    /\ decoder_ret.tag = "NotEnoughShards"
    /\ OriginalCount = 2
    /\ SuppliedCount = 1

\* Shards a caller may pass: one of each length tried.
AnyShards == { Shard(1, 0, len) : len \in Lengths(ShardBytes) }

\* C7: add_original_shard of the encoder returns TooManyOriginalShards
\* with K whenever K originals were accepted in the session, and never
\* while fewer were accepted.
C7_TooManyIffFull ==
    /\ ~encoder_result =>
          \A shard \in AnyShards :
              LET ret == EncoderWork_add_original_shard(encoder_work, shard).ret
              IN  IF Len(accepted) = OriginalCount
                  THEN ret = [tag |-> "TooManyOriginalShards",
                              original_count |-> OriginalCount]
                  ELSE ret.tag # "TooManyOriginalShards"
    /\ encoder_ret.tag = "TooManyOriginalShards" =>
          /\ Len(accepted) = OriginalCount
          /\ encoder_ret.original_count = OriginalCount

\* An original was refused after K were accepted.
C7_Witness ==
    /\ encoder_ret.tag = "TooManyOriginalShards"
    /\ Len(accepted) = OriginalCount

DifferentShardSize(shard_bytes, got) ==
    [tag |-> "DifferentShardSize", shard_bytes |-> shard_bytes, got |-> got]

\* C8: a call of add_original_shard of the encoder, or of add_original_shard
\* or add_recovery_shard of the decoder, that would be accepted with a shard
\* of S bytes returns DifferentShardSize with S and the length given when
\* the shard has another length; a shard of S bytes is never refused for
\* its size.
C8_DifferentShardSize ==
    /\ ~encoder_result =>
          \A shard \in AnyShards :
              LET ret == EncoderWork_add_original_shard(encoder_work, shard).ret
              IN  IF SliceLen(shard) = ShardBytes
                  THEN ret.tag # "DifferentShardSize"
                  ELSE Len(accepted) < OriginalCount =>
                           ret = DifferentShardSize(ShardBytes, SliceLen(shard))
    /\ ~decoder_result =>
          \A shard \in AnyShards :
              /\ \A i \in Indexes(OriginalCount) :
                     LET ret == DecoderWork_add_original_shard(decoder_work, i,
                                    shard, FALSE).ret
                     IN  IF SliceLen(shard) = ShardBytes
                         THEN ret.tag # "DifferentShardSize"
                         ELSE i < OriginalCount /\ i \notin DOMAIN supplied.original =>
                                  ret = DifferentShardSize(ShardBytes, SliceLen(shard))
              /\ \A j \in Indexes(RecoveryCount) :
                     LET ret == DecoderWork_add_recovery_shard(decoder_work, j,
                                    shard, FALSE).ret
                     IN  IF SliceLen(shard) = ShardBytes
                         THEN ret.tag # "DifferentShardSize"
                         ELSE j < RecoveryCount /\ j \notin DOMAIN supplied.recovery =>
                                  ret = DifferentShardSize(ShardBytes, SliceLen(shard))
    /\ encoder_ret.tag = "DifferentShardSize" =>
          encoder_ret.shard_bytes = ShardBytes /\ encoder_ret.got # ShardBytes
    /\ decoder_ret.tag = "DifferentShardSize" =>
          decoder_ret.shard_bytes = ShardBytes /\ decoder_ret.got # ShardBytes

\* The decoder refused a shard that is two bytes too long, after it
\* accepted a shard of S bytes.
C8_Witness ==
    /\ decoder_ret = DifferentShardSize(ShardBytes, ShardBytes + 2)
    /\ SuppliedCount >= 1

\* C9: add_original_shard of the decoder returns InvalidOriginalShardIndex
\* with K and i for every index i >= K, and add_recovery_shard returns
\* InvalidRecoveryShardIndex with M and j for every index j >= M, in every
\* build; an index below the count is never refused as invalid.
C9_InvalidIndex ==
    DecoderInUse /\ ~decoder_result =>
        \A shard \in AnyShards, overflow_checks \in BOOLEAN :
            /\ \A i \in Indexes(OriginalCount) :
                   LET ret == DecoderWork_add_original_shard(decoder_work, i,
                                  shard, overflow_checks).ret
                   IN  IF i >= OriginalCount
                       THEN ret = [tag |-> "InvalidOriginalShardIndex",
                                   original_count |-> OriginalCount,
                                   index |-> i]
                       ELSE ret.tag # "InvalidOriginalShardIndex"
            /\ \A j \in Indexes(RecoveryCount) :
                   LET ret == DecoderWork_add_recovery_shard(decoder_work, j,
                                  shard, overflow_checks).ret
                   IN  IF j >= RecoveryCount
                       THEN ret = [tag |-> "InvalidRecoveryShardIndex",
                                   recovery_count |-> RecoveryCount,
                                   index |-> j]
                       ELSE ret.tag # "InvalidRecoveryShardIndex"

\* C10: in a session of the decoder, adding an original (recovery) index
\* that was accepted in the session returns DuplicateOriginalShardIndex
\* (DuplicateRecoveryShardIndex) with the index; an index not accepted in
\* the session is never reported as duplicate, whatever indexes of the
\* other kind were accepted.
C10_Duplicate ==
    /\ ~decoder_result =>
          \A shard \in AnyShards :
              /\ \A i \in 0..(OriginalCount - 1) :
                     LET ret == DecoderWork_add_original_shard(decoder_work, i,
                                    shard, FALSE).ret
                     IN  IF i \in DOMAIN supplied.original
                         THEN ret = [tag |-> "DuplicateOriginalShardIndex",
                                     index |-> i]
                         ELSE ret.tag \notin {"DuplicateOriginalShardIndex",
                                              "DuplicateRecoveryShardIndex"}
              /\ \A j \in 0..(RecoveryCount - 1) :
                     LET ret == DecoderWork_add_recovery_shard(decoder_work, j,
                                    shard, FALSE).ret
                     IN  IF j \in DOMAIN supplied.recovery
                         THEN ret = [tag |-> "DuplicateRecoveryShardIndex",
                                     index |-> j]
                         ELSE ret.tag \notin {"DuplicateOriginalShardIndex",
                                              "DuplicateRecoveryShardIndex"}
    /\ decoder_ret.tag = "DuplicateOriginalShardIndex" =>
          decoder_ret.index \in DOMAIN supplied.original
    /\ decoder_ret.tag = "DuplicateRecoveryShardIndex" =>
          decoder_ret.index \in DOMAIN supplied.recovery

\* An original index was refused as duplicate while the same index was
\* accepted as recovery index.
C10_Witness ==
    /\ decoder_ret.tag = "DuplicateOriginalShardIndex"
    /\ decoder_ret.index \in DOMAIN supplied.recovery

\* The errors of add_original_shard and add_recovery_shard.
AddErrors ==
    {"TooManyOriginalShards", "DifferentShardSize",
     "InvalidOriginalShardIndex", "InvalidRecoveryShardIndex",
     "DuplicateOriginalShardIndex", "DuplicateRecoveryShardIndex"}

\* C11: a call of add_original_shard of the encoder, or of
\* add_original_shard or add_recovery_shard of the decoder, that returns an
\* error leaves the work as it was before the call: the received counters,
\* the bitmap and every byte of the store.
C11_FailedAddKeepsState ==
    /\ ~encoder_result =>
          \A shard \in AnyShards :
              LET r == EncoderWork_add_original_shard(encoder_work, shard)
              IN  r.ret.tag \in AddErrors => r.work = encoder_work
    /\ ~decoder_result =>
          \A shard \in AnyShards :
              /\ \A i \in Indexes(OriginalCount) :
                     LET r == DecoderWork_add_original_shard(decoder_work, i,
                                  shard, FALSE)
                     IN  r.ret.tag \in AddErrors => r.work = decoder_work
              /\ \A j \in Indexes(RecoveryCount) :
                     LET r == DecoderWork_add_recovery_shard(decoder_work, j,
                                  shard, FALSE)
                     IN  r.ret.tag \in AddErrors => r.work = decoder_work

\* The decoder refused a shard of a wrong size after it accepted a shard.
C11_Witness ==
    /\ decoder_ret.tag = "DifferentShardSize"
    /\ decoder_work.original_received_count + decoder_work.recovery_received_count >= 1
    /\ \E pos \in DOMAIN decoder_work.received : decoder_work.received[pos]

\* The originals an encoder with n originals accepted still misses.
MissingOriginals(n) ==
    [k \in 1..(OriginalCount - n) |-> Shard(1, n + k - 1, ShardBytes)]

\* A shard of S bytes for each index of indexes.
ShardsFor(indexes) == [i \in indexes |-> Shard(1, i, ShardBytes)]

\* The decoder work after the originals and the recovery shards of the
\* given indexes were added.
DecoderFedWith(work, originals, recoveries) ==
    DecoderFedRecovery(
        DecoderFedOriginal(work, ShardsFor(originals), OriginalCount),
        ShardsFor(recoveries), RecoveryCount)

\* C12: an encode that returns TooFewOriginalShards and a decode that
\* returns NotEnoughShards leave the work as it was, with no result held; the
\* shards accepted before stay accepted, and once the caller has added the
\* missing shards the next encode / decode succeeds.
C12_FailedBeginKeepsState ==
    [][ /\ encoder_ret'.tag = "TooFewOriginalShards" =>
              /\ encoder_work' = encoder_work
              /\ accepted' = accepted
              /\ ~encoder_result'
              /\ encoder_work'.original_received_count = Len(accepted)
              /\ EncoderWork_encode_begin(
                     EncoderFed(encoder_work', MissingOriginals(Len(accepted))))
                   = Ok
        /\ decoder_ret'.tag = "NotEnoughShards" =>
              /\ decoder_work' = decoder_work
              /\ supplied' = supplied
              /\ ~decoder_result'
              /\ \A i \in DOMAIN supplied.original :
                     DecoderWork_add_original_shard(decoder_work', i,
                         supplied.original[i], FALSE).ret.tag
                       = "DuplicateOriginalShardIndex"
              /\ \A j \in DOMAIN supplied.recovery :
                     DecoderWork_add_recovery_shard(decoder_work', j,
                         supplied.recovery[j], FALSE).ret.tag
                       = "DuplicateRecoveryShardIndex"
              /\ \A originals \in SUBSET (0..(OriginalCount - 1)
                                            \ DOMAIN supplied.original) :
                   \A recoveries \in SUBSET (0..(RecoveryCount - 1)
                                               \ DOMAIN supplied.recovery) :
                     SuppliedCount + Cardinality(originals)
                         + Cardinality(recoveries) >= OriginalCount =>
                       DecoderWork_decode_begin(
                           DecoderFedWith(decoder_work', originals, recoveries)).tag
                         = "Ok"
      ]_vars

\* decode was refused with one recovery shard accepted and no original.
C12_Witness ==
    /\ decoder_ret.tag = "NotEnoughShards"
    /\ OriginalCount = 2
    /\ supplied.original = <<>>
    /\ Cardinality(DOMAIN supplied.recovery) = 1
    /\ decoder_work.recovery_received_count = 1

\* The encoder has accepted K originals.
EncoderReady == ~encoder_result /\ Len(accepted) = OriginalCount

\* The decoder has received at least K shards.
DecoderReady == ~decoder_result /\ SuppliedCount >= OriginalCount

AllOriginalsSupplied == DOMAIN supplied.original = 0..(OriginalCount - 1)

\* The result of a decoder that was given every original is empty, in the
\* builds whose overflow checks are among `builds`.
EmptyResult(builds) ==
    AllOriginalsSupplied =>
        /\ ~decoder_result =>
              DecoderWork_decode_begin(decoder_work) = [tag |-> "Ok", work |-> FALSE]
        /\ decoder_result =>
              /\ \A i \in Indexes(OriginalCount), overflow_checks \in builds :
                     DecoderResult_restored_original(decoder_work, i,
                                                     overflow_checks) = None
              /\ LET iter == RestoredOriginal_new(decoder_work)
                 IN  /\ ExactSizeIterator_len(RestoredOriginal_size_hint(iter)) = 0
                     /\ \A debug_assertions \in BOOLEAN :
                            RestoredOriginal_next(iter, decoder_work,
                                                  debug_assertions)
                              = [iter |-> iter, ret |-> None]

\* C14: when all K originals were supplied, decode succeeds without the
\* transforms and its result is empty: restored_original(i) is None for every
\* i, in every build, and restored_original_iter has length 0 and yields
\* nothing, however many recovery shards were supplied as well.
C14_AllOriginalsEmptyResult == EmptyResult(BOOLEAN)

\* restored_original(i) is a shard of S bytes for the originals that were
\* not supplied and None for every other index, in the builds whose
\* overflow checks are among `builds`.
RestoredOriginalIff(builds) ==
    decoder_result =>
        \A i \in Indexes(OriginalCount), overflow_checks \in builds :
            LET r == DecoderResult_restored_original(decoder_work, i,
                                                     overflow_checks)
            IN  IF i < OriginalCount /\ i \notin DOMAIN supplied.original
                THEN r.tag = "Some" /\ SliceLen(r.value) = ShardBytes
                ELSE r = None

\* C15: on a DecoderResult, restored_original(i) is Some(slice of exactly S
\* bytes) if and only if i < K and original i was not supplied in the
\* session; it is None for every supplied index and for every i >= K, in
\* every build.
C15_RestoredOriginalIff == RestoredOriginalIff(BOOLEAN)

\* The elements of a set of numbers, in ascending order.
RECURSIVE Ascending(_)
Ascending(set) ==
    IF set = {} THEN <<>>
    ELSE LET least == CHOOSE x \in set : \A y \in set : x <= y
         IN  <<least>> \o Ascending(set \ {least})

\* The indexes of the originals that were not supplied, in ascending order.
MissingOriginalIndexes ==
    Ascending(0..(OriginalCount - 1) \ DOMAIN supplied.original)

\* C16: the calls of next() on restored_original_iter return, one after the
\* other, the indexes of the originals that were not supplied, in ascending
\* order and each once, each with the slice restored_original returns for
\* it; every call after the last of them returns None.
C16_RestoredOriginalIter ==
    restored_original_iter # NoIter =>
        \A k \in DOMAIN yielded.restored_original :
            yielded.restored_original[k] =
                IF k <= Len(MissingOriginalIndexes)
                THEN Some(<<MissingOriginalIndexes[k],
                            DecoderWork_restored_original(decoder_work,
                                MissingOriginalIndexes[k]).value>>)
                ELSE None

\* The iterator returned two restored originals and then None twice.
C16_Witness ==
    /\ restored_original_iter # NoIter
    /\ Len(MissingOriginalIndexes) = 2
    /\ Len(yielded.restored_original) = 4
    /\ yielded.restored_original[2].tag = "Some"
    /\ yielded.restored_original[4] = None

\* iter.len() of the two iterators.
Recovery_len(iter, work) ==
    ExactSizeIterator_len(Recovery_size_hint(iter, work))
RestoredOriginal_len(iter) ==
    ExactSizeIterator_len(RestoredOriginal_size_hint(iter))

\* The step is one on which next() of the iterator returns.
RecoveryNextReturns ==
    recovery_iter # NoIter /\ yielded'.recovery # yielded.recovery
RestoredOriginalNextReturns ==
    /\ restored_original_iter # NoIter
    /\ yielded'.restored_original # yielded.restored_original

\* C17: len() of recovery_iter is M at creation, len() of
\* restored_original_iter is K minus the number of originals received; a
\* next() that returns an item lowers len() by exactly one, a next() that
\* returns None leaves it at 0, and len() is 0 exactly when next() has no
\* item left to return.
C17_IteratorLength ==
    [][ /\ recovery_iter = NoIter /\ recovery_iter' # NoIter =>
              Recovery_len(recovery_iter', encoder_work') = RecoveryCount
        /\ restored_original_iter = NoIter /\ restored_original_iter' # NoIter =>
              RestoredOriginal_len(restored_original_iter')
                  = OriginalCount - Cardinality(DOMAIN supplied.original)
        /\ RecoveryNextReturns =>
              LET ret == yielded'.recovery[Len(yielded'.recovery)]
                  len == Recovery_len(recovery_iter, encoder_work)
                  len_after == Recovery_len(recovery_iter', encoder_work')
              IN  /\ ret # None => len_after = len - 1
                  /\ ret = None => len = 0 /\ len_after = 0
                  /\ len = 0 <=> ret = None
                  /\ len_after = 0 <=>
                         Recovery_next(recovery_iter', encoder_work').ret = None
        /\ RestoredOriginalNextReturns =>
              LET ret == yielded'.restored_original[
                             Len(yielded'.restored_original)]
                  len == RestoredOriginal_len(restored_original_iter)
                  len_after == RestoredOriginal_len(restored_original_iter')
              IN  /\ ret # None => len_after = len - 1
                  /\ ret = None => len = 0 /\ len_after = 0
                  /\ len = 0 <=> ret = None
                  /\ \A debug_assertions \in BOOLEAN :
                         len_after = 0 <=>
                             RestoredOriginal_next(restored_original_iter',
                                 decoder_work', debug_assertions).ret = None
      ]_vars

\* Both iterators returned every item and then None.
C17_Witness ==
    /\ recovery_iter # NoIter
    /\ Len(yielded.recovery) = RecoveryCount + 1
    /\ Recovery_len(recovery_iter, encoder_work) = 0
    /\ restored_original_iter # NoIter
    /\ Len(yielded.restored_original) >= 2
    /\ yielded.restored_original[1] # None
    /\ RestoredOriginal_len(restored_original_iter) = 0

\* C18: on an EncoderResult, recovery(i) is Some(slice of exactly S bytes)
\* for every i < M and None for every i >= M; the calls of next() on
\* recovery_iter return recovery(0), recovery(1), ..., recovery(M - 1) in
\* that order, and None from then on.
C18_RecoveryAndIter ==
    encoder_result =>
        /\ \A i \in Indexes(RecoveryCount) :
               LET r == EncoderResult_recovery(encoder_work, i)
               IN  IF i < RecoveryCount
                   THEN r.tag = "Some" /\ SliceLen(r.value) = ShardBytes
                   ELSE r = None
        /\ recovery_iter # NoIter =>
               \A k \in DOMAIN yielded.recovery :
                   yielded.recovery[k] =
                       IF k <= RecoveryCount
                       THEN EncoderResult_recovery(encoder_work, k - 1)
                       ELSE None

\* The iterator returned two recovery shards and then None twice.
C18_Witness ==
    /\ encoder_result
    /\ recovery_iter # NoIter
    /\ RecoveryCount = 2
    /\ Len(yielded.recovery) = 4
    /\ yielded.recovery[2].tag = "Some"
    /\ yielded.recovery[3] = None
    /\ yielded.recovery[4] = None

\* Calls of add_original_shard and add_recovery_shard a caller may make on
\* the decoder: every index up to the count, with two different shards of S
\* bytes and one that is two bytes longer.
DecoderCalls ==
    { [kind |-> kind, index |-> index, shard |-> shard] :
          kind \in {"original", "recovery"},
          index \in 0..Max(OriginalCount, RecoveryCount),
          shard \in { Shard(1, 0, ShardBytes), Shard(2, 0, ShardBytes),
                      Shard(1, 0, ShardBytes + 2) } }

\* The decoder work after the call.
DecoderCalled(work, call) ==
    IF call.kind = "original"
    THEN DecoderWork_add_original_shard(work, call.index, call.shard, FALSE).work
    ELSE DecoderWork_add_recovery_shard(work, call.index, call.shard, FALSE).work

\* The two calls give one index of one kind with two different shards.
SameIndexOtherShard(c1, c2) ==
    c1.kind = c2.kind /\ c1.index = c2.index /\ c1.shard # c2.shard

\* The two calls leave the same work in either order.
Commute(c1, c2) ==
    DecoderCalled(DecoderCalled(decoder_work, c1), c2)
        = DecoderCalled(DecoderCalled(decoder_work, c2), c1)

EncoderSlot(work, index) ==
    SubSlice(AsFlattened(Shards_index(
                 Shards_undo_last_chunk_encoding(work.shards, work.shard_bytes,
                                                 0, work.original_count),
                 index)),
             0, work.shard_bytes)

\* C20: the n-th shard the encoder accepted in the session (from 0) is in
\* slot n of the store, the number of originals received is the number
\* accepted, so that a rejected call takes no index, and the next shard
\* accepted goes to the slot after the last one filled.
C20_ArrivalOrder ==
    ~encoder_result =>
        /\ encoder_work.original_received_count = Len(accepted)
        /\ \A n \in 0..(Len(accepted) - 1) :
               EncoderSlot(encoder_work, n) = accepted[n + 1]
        /\ \A shard \in AnyShards :
               LET r == EncoderWork_add_original_shard(encoder_work, shard)
               IN  IF r.ret = Ok
                   THEN /\ r.work.original_received_count = Len(accepted) + 1
                        /\ EncoderSlot(r.work, Len(accepted)) = shard
                        /\ \A n \in 0..(Len(accepted) - 1) :
                               EncoderSlot(r.work, n) = accepted[n + 1]
                   ELSE r.work.original_received_count = Len(accepted)

\* A shard was refused for its size after one was accepted, in a session
\* that takes two.
C20_Witness ==
    /\ ~encoder_result
    /\ encoder_ret.tag = "DifferentShardSize"
    /\ OriginalCount = 2
    /\ Len(accepted) = 1
    /\ EncoderSlot(encoder_work, 0) = accepted[1]


\* ----------------------------------------------------------------------
\* The chunked layout of the store

\* C21: a shard of even length S inserted into a slot has its first
\* floor(S/64)*64 bytes, unchanged, in the whole chunks of the slot and,
\* when t = S mod 64 is not 0, its first t/2 tail bytes in bytes [0, t/2)
\* and its last t/2 tail bytes in bytes [32, 32 + t/2) of the slot's last
\* chunk.
C21_InsertLayout ==
    \A index \in DOMAIN store_inserted \ store_undone :
        LET shard == store_inserted[index]
            S == SliceLen(shard)
            t == S % 64
            slot == Shards_index(store, index)
        IN  /\ \A k \in 0..((S \div 64) * 64 - 1) :
                  slot[k \div 64][k % 64] = shard[k]
            /\ t # 0 =>
                  \A b \in 0..(t \div 2 - 1) :
                      /\ slot[S \div 64][b] = shard[64 * (S \div 64) + b]
                      /\ slot[S \div 64][32 + b] =
                             shard[64 * (S \div 64) + t \div 2 + b]

\* A shard with whole chunks and a tail is in its slot.
C21_Witness ==
    \E index \in DOMAIN store_inserted \ store_undone :
        /\ SliceLen(store_inserted[index]) > 64
        /\ SliceLen(store_inserted[index]) % 64 # 0
        /\ index > 0


\* The shard a result returns for a slot of the store: the first
\* shard_bytes bytes of the flattened slot.
Store_shard(index) ==
    SubSlice(AsFlattened(Shards_index(store, index)), 0, store_shard_bytes)

\* A slot whose shard of shard_bytes bytes was inserted and then un-split.
RoundTripped(index) ==
    /\ index \in DOMAIN store_inserted
    /\ index \in store_undone
    /\ SliceLen(store_inserted[index]) = store_shard_bytes

\* C22: for every even S (S in {2, 4, 6, 30, 32, 34, 62, 64, 66, 126, 128,
\* 130} included), after a shard is inserted into a slot and
\* undo_last_chunk_encoding is applied to the slot, the first S bytes of the
\* flattened slot are the inserted shard, so that the shard returned has
\* exactly S bytes; when S is a multiple of 64, undo_last_chunk_encoding
\* changes nothing.
C22_TailRoundTrip ==
    /\ [](\A index \in 0..(store.shard_count - 1) :
             RoundTripped(index) =>
                 /\ Store_shard(index) = store_inserted[index]
                 /\ SliceLen(Store_shard(index)) = store_shard_bytes)
    /\ [][(store_undone' \ store_undone # {} /\ store_shard_bytes % 64 = 0)
              => store' = store]_vars

\* A shard with a tail went through insert and undo, and so did a shard of
\* whole chunks.
C22_Witness ==
    \E index \in 0..(store.shard_count - 1) :
        /\ RoundTripped(index)
        /\ store_shard_bytes \in {66, 128}
        /\ store.shard_count > 1


\* ----------------------------------------------------------------------
\* The parameters the rates support

\* The rate found the shard counts of config supported.
CountsSupported ==
    validate_ret = Ok \/ validate_ret.tag = "InvalidShardSize"

\* C23: HighRate supports (K, M) if and only if K <= M_round and
\* K + M <= 65536, M_round being the next power of two >= M; LowRate
\* supports (K, M) if and only if M <= K_round, K_round being the next
\* power of two >= K; and validation accepts the parameter sets of the
\* tests, HighRate (35000, 1000, 64) and LowRate (1000, 35000, 64).
C23_Supports ==
    (validate_ret # NoCall /\ OriginalCount >= 1 /\ RecoveryCount >= 1) =>
        /\ config[1] = "HighRate" =>
               (CountsSupported <=>
                   /\ OriginalCount <= NextPowerOfTwo(RecoveryCount)
                   /\ OriginalCount + RecoveryCount <= 65536)
        /\ config[1] = "LowRate" =>
               (CountsSupported <=>
                   RecoveryCount <= NextPowerOfTwo(OriginalCount))
        /\ config \in TestConfigs => validate_ret = Ok


\* ----------------------------------------------------------------------
\* The received bitmap and the slots

\* The slot `index` of shards holds shard in the chunked layout.
SlotHolds(shards, index, shard) ==
    LET S == SliceLen(shard)
        t == S % 64
        slot == Shards_index(shards, index)
    IN  /\ \A k \in 0..((S \div 64) * 64 - 1) :
              slot[k \div 64][k % 64] = shard[k]
        /\ \A b \in 0..(t \div 2 - 1) :
              /\ slot[S \div 64][b] = shard[64 * (S \div 64) + b]
              /\ slot[S \div 64][32 + b] = shard[64 * (S \div 64) + t \div 2 + b]

\* received[p] is true exactly for the positions of the shards accepted in
\* the session, and their slots hold them.
ReceivedIffSupplied ==
    \A p \in 0..(SliceLen(decoder_work.received) - 1) :
        LET i == p - decoder_work.original_base_pos
            j == p - decoder_work.recovery_base_pos
        IN  /\ FixedBitSet_index(decoder_work.received, p) <=>
                   (i \in DOMAIN supplied.original \/ j \in DOMAIN supplied.recovery)
            /\ i \in DOMAIN supplied.original =>
                   SlotHolds(decoder_work.shards, p, supplied.original[i])
            /\ j \in DOMAIN supplied.recovery =>
                   SlotHolds(decoder_work.shards, p, supplied.recovery[j])

\* The decoder's result is held and the rate layer worked on the store.
StoreDecoded ==
    /\ decoder_result
    /\ decoder_work.original_received_count < decoder_work.original_count

C25_RegionsInStore ==
    decoder_work # DecoderWork_new =>
        LET originals == SlotRange(decoder_work.original_base_pos,
                             decoder_work.original_base_pos
                                 + decoder_work.original_count)
            recoveries == SlotRange(decoder_work.recovery_base_pos,
                              decoder_work.recovery_base_pos
                                  + decoder_work.recovery_count)
            work_count == decoder_work.shards.shard_count
        IN  /\ originals \cap recoveries = {}
            /\ originals \cup recoveries \subseteq SlotRange(0, work_count)
            /\ \A pos \in originals \cup recoveries :
                   ~Shards_index_panics(decoder_work.shards, pos)


\* ----------------------------------------------------------------------
\* The slots of the shards not received

\* decode_begin hands the store to the rate layer: enough shards were
\* received and an original is missing.
HandedOver ==
    LET begin == DecoderWork_decode_begin(decoder_work)
    IN  /\ ~decoder_result
        /\ begin.tag = "Ok"
        /\ begin.work

\* Positions of the two regions whose received bit is false.
MissingPositions ==
    { pos \in SlotRange(decoder_work.original_base_pos,
                        decoder_work.original_base_pos
                            + decoder_work.original_count)
              \cup SlotRange(decoder_work.recovery_base_pos,
                             decoder_work.recovery_base_pos
                                 + decoder_work.recovery_count) :
          ~FixedBitSet_index(decoder_work.received, pos) }

\* Every slot of a shard not received holds zero bytes only.
MissingSlotsZero ==
    \A pos \in MissingPositions :
        \A c \in 0..(decoder_work.shards.shard_len_64 - 1) :
            Shards_index(decoder_work.shards, pos)[c] = ZeroChunk

\* C26 as stated: whenever decode_begin hands the store to the rate layer,
\* every slot of the original and recovery regions whose received bit is
\* false contains only zero bytes, in the first session and in every later
\* session that reuses the work buffer.
C26_MissingSlotsZero == HandedOver => MissingSlotsZero

\* C26, amended: the same in the first session of a work buffer.
C26_MissingSlotsZeroAtFirst ==
    (HandedOver /\ sessions.decoder = 0) => MissingSlotsZero

\* The store of a first session is handed over with an original and a
\* recovery shard missing.
C26_Witness ==
    /\ HandedOver
    /\ sessions.decoder = 0
    /\ decoder_work.recovery_received_count < decoder_work.recovery_count
    /\ Cardinality(MissingPositions) > 1


\* ----------------------------------------------------------------------
\* The slots of the originals when encoding begins

\* encode_begin succeeds on the HighRate encoder: K shards were accepted.
HighRateEncodeBegins ==
    /\ config[1] = "HighRate"
    /\ ~encoder_result
    /\ EncoderWork_encode_begin(encoder_work) = Ok

\* The originals accepted are in the K slots from first on, in order.
OriginalsFrom(first) ==
    \A i \in 0..(OriginalCount - 1) :
        SlotHolds(encoder_work.shards, first + i, accepted[i + 1])

\* C27 as stated: when HighRate encoding begins (encode_begin succeeded
\* after K accepted shards), the K originals occupy the slots [M_round,
\* M_round + K), M_round being the next power of two >= M, the i-th
\* accepted original in slot M_round + i.
C27_OriginalsAtMRound ==
    HighRateEncodeBegins => OriginalsFrom(NextPowerOfTwo(RecoveryCount))

\* C27, amended: when HighRate encoding begins, the K originals occupy the
\* slots [0, K), the i-th accepted original in slot i.
C27_OriginalsAtZero == HighRateEncodeBegins => OriginalsFrom(0)

\* HighRate encoding begins with two originals, in a later session.
C27_Witness ==
    /\ HighRateEncodeBegins
    /\ OriginalCount = 2
    /\ sessions.encoder > 0


\* ----------------------------------------------------------------------
\* The work buffers after reset

\* The last call of reset made on a work buffer ("encoder" or "decoder"),
\* if any.
LastReset(work) ==
    LET calls == { k \in DOMAIN resets : resets[k].work = work }
    IN  IF calls = {} THEN None
        ELSE Some(resets[CHOOSE k \in calls : \A l \in calls : l <= k])

\* max(original_base_pos + K, recovery_base_pos + M) of a call of reset.
MaxReceivedPos(call) ==
    Max(Rate_original_base_pos(call.config[1], call.config[2], call.config[3])
            + call.config[2],
        Rate_recovery_base_pos(call.config[1], call.config[2], call.config[3])
            + call.config[3])

\* C28: after every DecoderWork::reset(K, M, S, original_base_pos,
\* recovery_base_pos, work_count) the received bitmap has a length of at
\* least max(original_base_pos + K, recovery_base_pos + M), and over any
\* sequence of reset calls on one work buffer the length of the bitmap
\* never decreases.
C28_BitmapLength ==
    /\ [](LastReset("decoder") # None =>
             SliceLen(decoder_work.received)
                 >= MaxReceivedPos(LastReset("decoder").value))
    /\ [][SliceLen(decoder_work.received')
              >= SliceLen(decoder_work.received)]_vars

\* The decoder's work was reset twice, the second time for a session that
\* needs fewer bits than the bitmap has.
C28_Witness ==
    /\ Len(resets) = 2
    /\ resets[1].work = "decoder"
    /\ resets[2].work = "decoder"
    /\ MaxReceivedPos(resets[2]) < MaxReceivedPos(resets[1])
    /\ MaxReceivedPos(resets[2]) < SliceLen(decoder_work.received)


\* The store has exactly the shards and chunks a call of reset asked for.
StoreSized(shards, call) ==
    /\ shards.shard_count = call.work_count
    /\ shards.shard_len_64 = DivCeil(call.config[4], 64)
    /\ SliceLen(shards.data) = call.work_count * DivCeil(call.config[4], 64)
    /\ \A index \in 0..(call.work_count - 1) :
           /\ ~Shards_index_panics(shards, index)
           /\ SliceLen(Shards_index(shards, index)) = DivCeil(call.config[4], 64)

\* C29: reset of an EncoderWork or of a DecoderWork, called in any prior
\* state (empty, partially filled, ready, after a dropped result, with
\* larger or smaller previous parameters), yields a session with every
\* received counter 0, every bit of the bitmap false and a store of exactly
\* work_count shards of ceil(S/64) chunks each.
C29_ResetState ==
    /\ LastReset("encoder") # None =>
           /\ encoder_work.original_received_count = 0
           /\ StoreSized(encoder_work.shards, LastReset("encoder").value)
    /\ LastReset("decoder") # None =>
           /\ decoder_work.original_received_count = 0
           /\ decoder_work.recovery_received_count = 0
           /\ \A p \in 0..(SliceLen(decoder_work.received) - 1) :
                  ~FixedBitSet_index(decoder_work.received, p)
           /\ StoreSized(decoder_work.shards, LastReset("decoder").value)

\* Both work buffers were reset with shards in their stores, the decoder's
\* for a smaller store, the encoder's for a larger one.
C29_Witness ==
    /\ Len(resets) = 2
    /\ LastReset("encoder") # None
    /\ LastReset("decoder") # None
    /\ LastReset("decoder").value.work_count < Rate_work_count(config[1], config[2], config[3])
    /\ LastReset("encoder").value.work_count > Rate_work_count(config[1], config[2], config[3])
    /\ \E c \in DOMAIN decoder_work.shards.data :
           decoder_work.shards.data[c] # ZeroChunk
    /\ \E c \in DOMAIN encoder_work.shards.data :
           encoder_work.shards.data[c] # ZeroChunk


\* ----------------------------------------------------------------------
\* The shards a view lends

\* The chunks of shard `index` of the store.
ShardChunks(index) ==
    ChunkSlice(index * store.shard_len_64, (index + 1) * store.shard_len_64)

\* Two slices have no chunk in common.
Disjoint(s1, s2) == s1.to <= s2.from \/ s2.to <= s1.from

\* C30: for a view of shard_count shards, dist2_mut(pos, dist) with
\* dist >= 1 and pos + dist < shard_count returns the chunks of shard pos
\* and of shard pos + dist, and dist4_mut(pos, dist) with
\* pos + 3 * dist < shard_count those of the shards pos, pos + dist,
\* pos + 2 * dist and pos + 3 * dist, in that order; each slice returned
\* has shard_len_64 chunks and no two have a chunk in common.
C30_DistShards ==
    view_ret # NoCall =>
        LET n == IF view_ret.call = "dist2_mut" THEN 2 ELSE 4
        IN  (/\ view_ret.dist >= 1
             /\ view_ret.pos + (n - 1) * view_ret.dist < store.shard_count) =>
                /\ view_ret.ret # Panic
                /\ Len(view_ret.ret.value) = n
                /\ \A k \in 1..n :
                       /\ view_ret.ret.value[k] =
                              ShardChunks(view_ret.pos + (k - 1) * view_ret.dist)
                       /\ ChunkSlice_len(view_ret.ret.value[k]) = store.shard_len_64
                /\ \A k, l \in 1..n :
                       k < l => Disjoint(view_ret.ret.value[k],
                                         view_ret.ret.value[l])

\* dist4_mut lent four shards of two chunks, two shards apart, not from the
\* first shard on.
C30_Witness ==
    /\ view_ret # NoCall
    /\ view_ret.call = "dist4_mut"
    /\ view_ret.ret # Panic
    /\ view_ret.dist = 2
    /\ view_ret.pos = 0
    /\ store.shard_len_64 = 2


\* C31: dist2_mut and dist4_mut panic whenever they are called with
\* dist = 0, for every view (every shard_count and every shard_len_64,
\* shard_len_64 = 0 included) and every pos.
C31_ZeroDistPanics ==
    (view_ret # NoCall /\ view_ret.dist = 0) => view_ret.ret = Panic


\* The chunks of the shards first .. first + count.
ShardRangeChunks(first, count) ==
    ChunkSlice(first * store.shard_len_64,
               (first + count) * store.shard_len_64)

\* The shards first .. first + count, as a range of shard numbers.
ShardRange(first, count) == ChunkSlice(first, first + count)

\* C32: flat2_mut(x, y, count) on two ranges of shards of the view that do
\* not overlap returns the chunks of the shards x .. x + count first and
\* those of the shards y .. y + count second, whether x < y or x > y; when
\* the two ranges of shards overlap, x = y with count > 0 included, the
\* call panics.
C32_Flat2ShardRanges ==
    (view_ret # NoCall /\ view_ret.call = "flat2_mut") =>
        LET xr == ShardRange(view_ret.x, view_ret.count)
            yr == ShardRange(view_ret.y, view_ret.count)
        IN  /\ (/\ xr.to <= store.shard_count
                /\ yr.to <= store.shard_count
                /\ Disjoint(xr, yr)) =>
                   view_ret.ret =
                       Some(<<ShardRangeChunks(view_ret.x, view_ret.count),
                              ShardRangeChunks(view_ret.y, view_ret.count)>>)
            /\ ~Disjoint(xr, yr) => view_ret.ret = Panic

\* C32 (amended): flat2_mut(x, y, count) on two ranges of shards of the
\* view that do not overlap returns the chunks of the shards x .. x + count
\* first and those of the shards y .. y + count second, whether x < y or
\* x > y; when the two ranges have a chunk in common (they overlap and a
\* shard has at least one chunk), x = y with count > 0 included, the call
\* panics.
C32_Flat2Ranges ==
    (view_ret # NoCall /\ view_ret.call = "flat2_mut") =>
        LET xr == ShardRange(view_ret.x, view_ret.count)
            yr == ShardRange(view_ret.y, view_ret.count)
            xs == ShardRangeChunks(view_ret.x, view_ret.count)
            ys == ShardRangeChunks(view_ret.y, view_ret.count)
        IN  /\ (/\ xr.to <= store.shard_count
                /\ yr.to <= store.shard_count
                /\ Disjoint(xr, yr)) =>
                   view_ret.ret = Some(<<xs, ys>>)
            /\ ~Disjoint(xs, ys) => view_ret.ret = Panic

\* Two shards lent from the third shard on and two from the first, of two
\* chunks each.
C32_Witness ==
    /\ view_ret # NoCall
    /\ view_ret.call = "flat2_mut"
    /\ store.shard_len_64 = 2
    /\ view_ret.x = 2 /\ view_ret.y = 0 /\ view_ret.count = 2
    /\ view_ret.ret = Some(<<ChunkSlice(4, 8), ChunkSlice(0, 4)>>)


\* The positions of a region of count slots from base whose bit is set.
SetBits(base, count) ==
    { pos \in SlotRange(base, base + count) :
          FixedBitSet_index(decoder_work.received, pos) }

\* C33: in every decoder state original_received_count is the number of
\* bits set in [original_base_pos, original_base_pos + K) and at most K,
\* recovery_received_count is the number of bits set in
\* [recovery_base_pos, recovery_base_pos + M) and at most M, and no bit
\* outside the two regions is set; in every encoder state
\* 0 <= original_received_count <= K; so missing_original_count does not
\* underflow.
C33_CountsAreSetBits ==
    LET originals == SetBits(decoder_work.original_base_pos,
                             decoder_work.original_count)
        recoveries == SetBits(decoder_work.recovery_base_pos,
                              decoder_work.recovery_count)
    IN  /\ decoder_work.original_received_count = Cardinality(originals)
        /\ decoder_work.original_received_count <= decoder_work.original_count
        /\ decoder_work.recovery_received_count = Cardinality(recoveries)
        /\ decoder_work.recovery_received_count <= decoder_work.recovery_count
        /\ \A pos \in DOMAIN decoder_work.received :
               decoder_work.received[pos] =>
                   pos \in originals \cup recoveries
        /\ encoder_work.original_received_count >= 0
        /\ encoder_work.original_received_count <= encoder_work.original_count
        /\ DecoderWork_missing_original_count(decoder_work) >= 0

\* A decoder with every original shard and a recovery shard received, fed
\* by a second session of an encoder that holds every original shard.
C33_Witness ==
    /\ sessions.decoder >= 1
    /\ decoder_work.original_received_count = decoder_work.original_count
    /\ decoder_work.recovery_received_count >= 1
    /\ encoder_work.original_received_count = encoder_work.original_count
    /\ decoder_ret = Ok


\* The indexes from next_index on whose original shard was not received.
MissingFrom(next_index) ==
    { index \in SlotRange(next_index, decoder_work.original_count) :
          ~FixedBitSet_index(decoder_work.received,
                             decoder_work.original_base_pos + index) }

\* C34: in every state of an iterator made from a DecoderResult, remaining
\* is the number of indexes i with next_index <= i < K whose original was
\* not received, so a call of next with remaining > 0 finds such an index
\* and does not reach the assertion 'Inconsistency in internal data
\* structures'.
C34_RemainingAreMissing ==
    restored_original_iter # NoIter =>
        /\ restored_original_iter.remaining =
               Cardinality(MissingFrom(restored_original_iter.next_index))
        /\ RestoredOriginal_next(restored_original_iter, decoder_work,
                                 TRUE).ret # Panic

\* The iterator has yielded the first of two missing originals.
C34_Witness ==
    /\ restored_original_iter # NoIter
    /\ restored_original_iter.remaining = 1
    /\ restored_original_iter.next_index = 1
    /\ Cardinality(MissingFrom(0)) = 2


\* The error (or panic) of each add call that breaks several conditions at
\* once is that of the first condition in the order index, duplicate, size
\* (decoder) and count, size (encoder), in the builds given.
ErrorPrecedence(builds) ==
    /\ ~encoder_result =>
          \A shard \in AnyShards :
              (Len(accepted) = OriginalCount /\ SliceLen(shard) # ShardBytes) =>
                  EncoderWork_add_original_shard(encoder_work, shard).ret.tag
                      = "TooManyOriginalShards"
    /\ DecoderInUse /\ ~decoder_result =>
          \A shard \in AnyShards, overflow_checks \in builds :
              /\ \A i \in Indexes(OriginalCount) :
                     LET ret == DecoderWork_add_original_shard(decoder_work, i,
                                    shard, overflow_checks).ret
                         pos == (decoder_work.original_base_pos + i)
                                    % (USIZE_MAX + 1)
                         invalid == i >= OriginalCount
                         duplicate == FixedBitSet_index(decoder_work.received, pos)
                         size == SliceLen(shard) # ShardBytes
                     IN  /\ invalid /\ (duplicate \/ size) =>
                             ret.tag = "InvalidOriginalShardIndex"
                         /\ ~invalid /\ duplicate /\ size =>
                             ret.tag = "DuplicateOriginalShardIndex"
              /\ \A j \in Indexes(RecoveryCount) :
                     LET ret == DecoderWork_add_recovery_shard(decoder_work, j,
                                    shard, overflow_checks).ret
                         pos == (decoder_work.recovery_base_pos + j)
                                    % (USIZE_MAX + 1)
                         invalid == j >= RecoveryCount
                         duplicate == FixedBitSet_index(decoder_work.received, pos)
                         size == SliceLen(shard) # ShardBytes
                     IN  /\ invalid /\ (duplicate \/ size) =>
                             ret.tag = "InvalidRecoveryShardIndex"
                         /\ ~invalid /\ duplicate /\ size =>
                             ret.tag = "DuplicateRecoveryShardIndex"

\* C35: an add call that breaks several conditions at once reports the
\* error of the first in a fixed order: in the decoder an index out of
\* range before a duplicate index, and a duplicate index before a wrong
\* shard size; in the encoder TooManyOriginalShards before
\* DifferentShardSize.
C35_ErrorPrecedence == ErrorPrecedence(BOOLEAN)


\* The bytes of the last chunk of a shard of S bytes that insert writes.
TailHalves(S) ==
    { b \in 0..63 : b < (S % 64) \div 2
                    \/ (b >= 32 /\ b < 32 + (S % 64) \div 2) }

\* Between the stores before and after, nothing changed but the slot, and in
\* the last chunk of the slot of a shard of S bytes, S not a multiple of
\* 64, nothing but the two halves.
SlotFrame(before, after, slot, S) ==
    LET first == slot * before.shard_len_64
    IN  /\ after.shard_count = before.shard_count
        /\ after.shard_len_64 = before.shard_len_64
        /\ DOMAIN after.data = DOMAIN before.data
        /\ \A c \in DOMAIN before.data :
               IF c < first \/ c >= first + before.shard_len_64
               THEN after.data[c] = before.data[c]
               ELSE (S % 64 # 0 /\ c = first + S \div 64) =>
                        \A b \in (0..63) \ TailHalves(S) :
                            after.data[c][b] = before.data[c][b]

\* The bits before and after differ in the bit pos only, which is set.
BitFrame(before, after, pos) ==
    /\ DOMAIN after = DOMAIN before
    /\ pos \in DOMAIN after /\ after[pos]
    /\ \A p \in DOMAIN before : p # pos => after[p] = before[p]

EncoderAddFrame ==
    Len(accepted') = Len(accepted) + 1 =>
        /\ encoder_work' =
               [encoder_work EXCEPT
                   !.original_received_count = @ + 1,
                   !.shards = encoder_work'.shards]
        /\ SlotFrame(encoder_work.shards, encoder_work'.shards,
                     encoder_work.original_received_count,
                     encoder_work.shard_bytes)
        /\ decoder_work' = decoder_work

DecoderAddOriginalFrame ==
    \A index \in DOMAIN supplied'.original \ DOMAIN supplied.original :
        LET pos == decoder_work.original_base_pos + index
        IN  /\ decoder_work' =
                   [decoder_work EXCEPT
                       !.original_received_count = @ + 1,
                       !.received = decoder_work'.received,
                       !.shards = decoder_work'.shards]
            /\ BitFrame(decoder_work.received, decoder_work'.received, pos)
            /\ SlotFrame(decoder_work.shards, decoder_work'.shards, pos,
                         decoder_work.shard_bytes)
            /\ encoder_work' = encoder_work

DecoderAddRecoveryFrame ==
    \A index \in DOMAIN supplied'.recovery \ DOMAIN supplied.recovery :
        LET pos == decoder_work.recovery_base_pos + index
        IN  /\ decoder_work' =
                   [decoder_work EXCEPT
                       !.recovery_received_count = @ + 1,
                       !.received = decoder_work'.received,
                       !.shards = decoder_work'.shards]
            /\ BitFrame(decoder_work.received, decoder_work'.received, pos)
            /\ SlotFrame(decoder_work.shards, decoder_work'.shards, pos,
                         decoder_work.shard_bytes)
            /\ encoder_work' = encoder_work

\* C36: a successful add_original_shard or add_recovery_shard changes its
\* own slot, adds exactly 1 to its own counter and, in the decoder, sets
\* its own bit; every other slot, the other counter and every other bit
\* are unchanged; in the slot written, when t = S mod 64 is not 0, the
\* bytes of the last chunk outside [0, t/2) and [32, 32 + t/2) keep the
\* values they had before the call.
C36_AddFrame ==
    [][EncoderAddFrame /\ DecoderAddOriginalFrame /\ DecoderAddRecoveryFrame]_vars

\* A shard accepted by the decoder into a slot whose last chunk holds, next
\* to the shard's two halves, a byte left by the session before.
C36_Witness ==
    /\ ~decoder_result
    /\ decoder_work.shard_bytes % 64 # 0
    /\ \E index \in DOMAIN supplied.original :
           LET c == (decoder_work.original_base_pos + index)
                        * decoder_work.shards.shard_len_64
                    + decoder_work.shard_bytes \div 64
           IN  \E b \in (0..63) \ TailHalves(decoder_work.shard_bytes) :
                   decoder_work.shards.data[c][b] # 0

====
